---- MODULE Spec2Model ----
(***************************************************************************)
(* password-responder: the Twilio SMS webhook (api/sms.js), its abuse      *)
(* guard (lib/abuse.js), throttle ledger (lib/throttle.js), opt-out ledger *)
(* (lib/optout.js) and the admin operations, over a model of the Redis     *)
(* store they share; and the bulk admin CLI (tools/bulk-admin.mjs).        *)
(*                                                                         *)
(* Text (sender identifiers, message bodies) is a sequence of one-character*)
(* strings, so that substring search, upper-casing, trimming and the       *)
(* regular expressions are computed as the code computes them.             *)
(* The clock counts seconds (the code's Date.now() is in milliseconds;     *)
(* every duration of the code is a whole number of seconds).               *)
(* Every await of the code is one step of a delivery, so deliveries can    *)
(* interleave exactly at the code's await points; the operations of a      *)
(* Promise.all are applied one per step, in any order.                     *)
(***************************************************************************)
EXTENDS Integers, Sequences, FiniteSets, TLC

VARIABLES redis, now, proc, admin, keyword, deliveriesLeft, ticksLeft, prev, cli

vars == <<redis, now, proc, admin, keyword, deliveriesLeft, ticksLeft, prev, cli>>

(***************************************************************************)
(* Bounds of the model.                                                    *)
(***************************************************************************)
MaxDeliveries == 2
MaxTicks == 2
Epoch == 864000

(***************************************************************************)
(* Text.                                                                   *)
(***************************************************************************)
Lower == <<"a", "b", "c", "d", "e", "f", "g", "h", "i", "j", "k", "l", "m",
           "n", "o", "p", "q", "r", "s", "t", "u", "v", "w", "x", "y", "z">>
Upper == <<"A", "B", "C", "D", "E", "F", "G", "H", "I", "J", "K", "L", "M",
           "N", "O", "P", "Q", "R", "S", "T", "U", "V", "W", "X", "Y", "Z">>
Digits == {"0", "1", "2", "3", "4", "5", "6", "7", "8", "9"}

\* String.prototype.toUpperCase, character by character.
ToUpperChar(c) ==
    IF \E i \in 1..26 : Lower[i] = c
        THEN Upper[CHOOSE i \in 1..26 : Lower[i] = c]
        ELSE c
ToUpperCase(s) == [i \in 1..Len(s) |-> ToUpperChar(s[i])]

\* String.prototype.trim: drop the leading and the trailing white space.
RECURSIVE TrimLeft(_)
TrimLeft(s) == IF s # <<>> /\ Head(s) = " " THEN TrimLeft(Tail(s)) ELSE s
RECURSIVE TrimRight(_)
TrimRight(s) ==
    IF s # <<>> /\ s[Len(s)] = " " THEN TrimRight(SubSeq(s, 1, Len(s) - 1)) ELSE s
Trim(s) == TrimRight(TrimLeft(s))

\* String.prototype.includes: k occurs in s as a contiguous substring.
Includes(s, k) ==
    \E i \in 0..(Len(s) - Len(k)) : SubSeq(s, i + 1, i + Len(k)) = k

\* Mutant of IsE164US: the 900 area code is turned away.
IsE164US_No900(s) ==
    /\ Len(s) = 12
    /\ s[1] = "+"
    /\ s[2] = "1"
    /\ \A i \in 3..12 : s[i] \in Digits
    /\ ~(s[3] = "9" /\ s[4] = "0" /\ s[5] = "0")

\* /^\+1\d{10}$/.test(s)
IsE164US(s) ==
    /\ Len(s) = 12
    /\ s[1] = "+"
    /\ s[2] = "1"
    /\ \A i \in 3..12 : s[i] \in Digits

\* \w of a regular expression.
IsWordChar(c) ==
    \/ c \in Digits
    \/ c = "_"
    \/ \E i \in 1..26 : Lower[i] = c \/ Upper[i] = c

W_HTTP == <<"H", "T", "T", "P", ":", "/", "/">>
W_HTTPS == <<"H", "T", "T", "P", "S", ":", "/", "/">>

\* ABUSE.URL_PATTERN = /\bhttps?:\/\//i : "http://" or "https://", in any
\* case, starting at a word boundary.
URL_PATTERN(s) ==
    \E i \in 1..Len(s) :
        /\ i = 1 \/ ~IsWordChar(s[i - 1])
        /\ \/ /\ i + 6 <= Len(s)
              /\ ToUpperCase(SubSeq(s, i, i + 6)) = W_HTTP
           \/ /\ i + 7 <= Len(s)
              /\ ToUpperCase(SubSeq(s, i, i + 7)) = W_HTTPS

(***************************************************************************)
(* lib/config.js                                                           *)
(***************************************************************************)
W_STOP == <<"S", "T", "O", "P">>
W_STOPALL == <<"S", "T", "O", "P", "A", "L", "L">>
W_UNSUBSCRIBE == <<"U", "N", "S", "U", "B", "S", "C", "R", "I", "B", "E">>
W_CANCEL == <<"C", "A", "N", "C", "E", "L">>
W_END == <<"E", "N", "D">>
W_QUIT == <<"Q", "U", "I", "T">>
W_START == <<"S", "T", "A", "R", "T">>
W_UNSTOP == <<"U", "N", "S", "T", "O", "P">>
W_YES == <<"Y", "E", "S">>
W_HELP == <<"H", "E", "L", "P">>
W_INFO == <<"I", "N", "F", "O">>
W_PASSWORD == <<"P", "A", "S", "S", "W", "O", "R", "D">>

OPT_OUTS == {W_STOP, W_STOPALL, W_UNSUBSCRIBE, W_CANCEL, W_END, W_QUIT}
OPT_INS == {W_START, W_UNSTOP, W_YES}
HELP_WORDS == {W_HELP, W_INFO}

ALLOW_PASSWORD_REJOIN == TRUE
US_ONLY == TRUE

\* Throttles and caps read from the environment. The per-sender cap and the
\* cooldown are at their defaults; the global cap is configured to 2 (its
\* default is 2000).
MIN_REPLY_COOLDOWN_MIN == 3
MAX_PER_NUMBER_PER_DAY == 3
GLOBAL_MAX_PER_DAY == 2

\* TTL (seconds)
TTL_PER_NUMBER_HASH == 259200
TTL_GLOBAL_DAILY == 172800

\* ABUSE
UNKNOWN_WINDOW_MINUTES == 5
UNKNOWN_MESSAGE_THRESHOLD == 20
DEFENSIVE_MODE_DURATION_SEC == 3600
MAX_MESSAGES_PER_NUMBER == 5
BURST_WINDOW_SECONDS == 60
MAX_MESSAGE_LENGTH == 160
SUSPICIOUS_BLOCK_AT == 5

\* KEYS: a key of the store is a tuple, its name's fixed part first.
K_WHITELIST == <<"whitelist">>
K_ABUSE_SET == <<"abuse:index">>
K_DEFENSIVE_MODE == <<"defensive:mode">>
K_UNKNOWN_WINDOW == <<"unknownFlood:window">>
K_OPTOUT_INDEX == <<"optedout:index">>
K_GLOBAL_DAILY(day) == <<"rl:global:", day>>
K_PER_NUMBER_HASH(phone) == <<"rl:num:", phone>>
K_BURST(phone, bucket) == <<"burst:", phone, bucket>>
K_OPTOUT(phone) == <<"optout:", phone>>

(***************************************************************************)
(* The Redis store: a function from the live keys to [v, exp]; exp is the  *)
(* time at which the key expires, NoTTL for a key without expiry.  A set   *)
(* or a hash that becomes empty ceases to exist, as in Redis.              *)
(***************************************************************************)
NoTTL == -1
Null == "null"

Has(R, k) == k \in DOMAIN R
Without(R, k) == [x \in DOMAIN R \ {k} |-> R[x]]
Put(R, k, v, exp) ==
    IF Has(R, k) THEN [R EXCEPT ![k] = [v |-> v, exp |-> exp]]
                 ELSE R @@ (k :> [v |-> v, exp |-> exp])

\* GET: the value, or null for an absent key. The flags the code tests for
\* truth hold '1', so a flag is true exactly when its key exists; a counter
\* read with Number(raw ?? 0) is 0 when its key is absent.
Get(R, k) == IF Has(R, k) THEN R[k].v ELSE Null
GetFlag(R, k) == Has(R, k)
GetNumber(R, k) == IF Has(R, k) THEN R[k].v ELSE 0
\* SET key value EX seconds: replaces the value and the expiry.
SetEx(R, k, v, seconds, t) == Put(R, k, v, t + seconds)
\* DEL
Del(R, k) == IF Has(R, k) THEN Without(R, k) ELSE R
\* INCR: an absent key counts from 0 and is created without expiry; an
\* existing key keeps its expiry.
IncrValue(R, k) == IF Has(R, k) THEN R[k].v + 1 ELSE 1
Incr(R, k) == Put(R, k, IncrValue(R, k), IF Has(R, k) THEN R[k].exp ELSE NoTTL)
\* EXPIRE: sets the expiry of an existing key; nothing on an absent key.
Expire(R, k, seconds, t) ==
    IF Has(R, k) THEN [R EXCEPT ![k].exp = t + seconds] ELSE R
\* SADD, SREM, SISMEMBER
Members(R, k) == IF Has(R, k) THEN R[k].v ELSE {}
Sadd(R, k, m) ==
    Put(R, k, Members(R, k) \cup {m}, IF Has(R, k) THEN R[k].exp ELSE NoTTL)
Srem(R, k, m) ==
    IF ~Has(R, k) THEN R
    ELSE IF R[k].v \ {m} = {} THEN Without(R, k)
    ELSE [R EXCEPT ![k].v = @ \ {m}]
Sismember(R, k, m) == m \in Members(R, k)
\* HGET, HSET, HINCRBY, HDEL
Fields(R, k) == IF Has(R, k) THEN DOMAIN R[k].v ELSE {}
Hget(R, k, f) == IF f \in Fields(R, k) THEN R[k].v[f] ELSE Null
HgetNumber(R, k, f) == IF f \in Fields(R, k) THEN R[k].v[f] ELSE 0
Hset(R, k, f, val) ==
    Put(R, k,
        [x \in Fields(R, k) \cup {f} |-> IF x = f THEN val ELSE R[k].v[x]],
        IF Has(R, k) THEN R[k].exp ELSE NoTTL)
HincrbyValue(R, k, f, n) == IF f \in Fields(R, k) THEN R[k].v[f] + n ELSE n
Hincrby(R, k, f, n) == Hset(R, k, f, HincrbyValue(R, k, f, n))
Hdel(R, k, fs) ==
    IF ~Has(R, k) THEN R
    ELSE IF Fields(R, k) \ fs = {} THEN Without(R, k)
    ELSE [R EXCEPT ![k].v = [x \in Fields(R, k) \ fs |-> R[k].v[x]]]
\* SCAN MATCH burst:<phone>:* : the keys made of the burst prefix, the
\* phone, and any bucket.
ScanBurst(R, phone) ==
    {k \in DOMAIN R : Len(k) = 3 /\ k[1] = "burst:" /\ k[2] = phone}
\* Keys past their expiry cease to exist.
Purge(R, t) ==
    [k \in {x \in DOMAIN R : R[x].exp = NoTTL \/ R[x].exp > t} |-> R[k]]

(***************************************************************************)
(* Deliveries.  A slot of proc holds one webhook invocation: its position  *)
(* (pc), the handler's local variables, the operations of the Promise.all  *)
(* it is waiting for (pend), the stages it went through (path), and the    *)
(* store and clock as they were when it started (pre, preNow).             *)
(***************************************************************************)
Procs == {1, 2}

EmptyStore == [k \in {} |-> [v |-> 0, exp |-> NoTTL]]

IdleProc ==
    [pc |-> "idle", from |-> <<>>, body |-> <<>>, upper |-> <<>>, today |-> 0,
     pend |-> {}, stillOptedOut |-> FALSE, bucket |-> 0, burstCount |-> 0,
     floodCount |-> 0, badCount |-> 0, scanned |-> {}, globalCount |-> 0,
     numberCount |-> 0, lastMs |-> 0, nowMs |-> 0, outcome |-> "NONE",
     path |-> {}, pre |-> EmptyStore, preNow |-> 0]

InFlight(p) == proc[p].pc # "idle"
Quiet == admin.pc = "idle" /\ \A q \in Procs : ~InFlight(q)
\* The model stops with its last delivery: nothing is explored after it.
MoreToCome == deliveriesLeft > 0

\* lib/utils.js dayKey: the date of the clock shifted by the zone offset.
TimezoneOffsetMin == 0
SecondsPerDay == 86400
dayKey(t) == (t - TimezoneOffsetMin * 60) \div SecondsPerDay

keywordRequired == ToUpperCase(keyword)

OptOutMatch(upper) == \E k \in OPT_OUTS : Includes(upper, k)
HelpMatch(upper) == \E k \in HELP_WORDS : Includes(upper, k)
OptInMatch(upper) == \E k \in OPT_INS : Includes(upper, k)

\* Mutant of RejoinByKeyword: an empty keyword is not told apart; it is
\* found in every body.
RejoinByKeyword_EmptyKeyword(upper) ==
    /\ ALLOW_PASSWORD_REJOIN
    /\ Includes(upper, keywordRequired)

\* ALLOW_PASSWORD_REJOIN && keywordRequired && bodyUpper.includes(keywordRequired)
RejoinByKeyword(upper) ==
    /\ ALLOW_PASSWORD_REJOIN
    /\ keywordRequired # <<>>
    /\ Includes(upper, keywordRequired)

\* keywordRequired && !bodyUpper.includes(keywordRequired)
KeywordGateFails(upper) ==
    /\ keywordRequired # <<>>
    /\ ~Includes(upper, keywordRequired)

\* messageBody.length > ABUSE.MAX_MESSAGE_LENGTH || ABUSE.URL_PATTERN.test(messageBody)
IsSuspicious(body) == Len(body) > MAX_MESSAGE_LENGTH \/ URL_PATTERN(body)

\* The handler's terminal responses.
Silent(r) == [r EXCEPT !.pc = "done", !.outcome = "SILENT", !.pend = {}]
Reply(r, o) == [r EXCEPT !.pc = "done", !.outcome = o, !.pend = {}]
Goto(r, pc, stage) == [r EXCEPT !.pc = pc, !.path = @ \cup {stage}]

\* Mutant of KeywordGate: the gate is left open.
KeywordGate_Open(r) == Goto(r, "whitelist", "whitelist")
\* sms.js 292-298, up to the await of the whitelist lookup.
KeywordGate(r) ==
    IF KeywordGateFails(r.upper)
        THEN Silent([r EXCEPT !.path = @ \cup {"gateFailed"}])
        ELSE Goto(r, "whitelist", "whitelist")

\* Mutant of Classify: a help word is answered and also clears the opt-out.
Classify_HelpClears(r) ==
    IF OptOutMatch(r.upper)
        THEN [Goto(r, "recordOptOut", "optOut") EXCEPT !.pend = {"set", "sadd"}]
    ELSE IF HelpMatch(r.upper) \/ OptInMatch(r.upper)
        THEN [Goto(r, "clearOptOut", IF HelpMatch(r.upper) THEN "help" ELSE "optIn")
                  EXCEPT !.pend = {"del", "srem"}]
    ELSE Goto(r, "isOptedOut", "optOutCheck")
\* Mutant of Classify: the help words are looked for before the opt-out
\* words.
Classify_HelpFirst(r) ==
    IF HelpMatch(r.upper)
        THEN Reply([r EXCEPT !.path = @ \cup {"help"}], "REPLY_HELP")
    ELSE IF OptOutMatch(r.upper)
        THEN [Goto(r, "recordOptOut", "optOut") EXCEPT !.pend = {"set", "sadd"}]
    ELSE IF OptInMatch(r.upper)
        THEN [Goto(r, "clearOptOut", "optIn") EXCEPT !.pend = {"del", "srem"}]
    ELSE Goto(r, "isOptedOut", "optOutCheck")

\* sms.js 245-273, up to the first await.
Classify(r) ==
    IF OptOutMatch(r.upper)
        THEN [Goto(r, "recordOptOut", "optOut") EXCEPT !.pend = {"set", "sadd"}]
    ELSE IF HelpMatch(r.upper)
        THEN Reply([r EXCEPT !.path = @ \cup {"help"}], "REPLY_HELP")
    ELSE IF OptInMatch(r.upper)
        THEN [Goto(r, "clearOptOut", "optIn") EXCEPT !.pend = {"del", "srem"}]
    ELSE Goto(r, "isOptedOut", "optOutCheck")

\* What is remembered of the last delivery that completed (when deliveries
\* are handled one at a time).
NoDelivery ==
    [from |-> <<>>, body |-> <<>>, outcome |-> "NONE", path |-> {}, at |-> 0,
     hadRecord |-> FALSE, capped |-> FALSE]
Summary(r) ==
    [from |-> r.from, body |-> r.body, outcome |-> r.outcome, path |-> r.path,
     at |-> r.preNow,
     hadRecord |-> Has(r.pre, K_PER_NUMBER_HASH(r.from)),
     capped |-> r.globalCount >= GLOBAL_MAX_PER_DAY]

\* A webhook delivery arrives: sms.js 227-243 and the classification.
Start(p, From, Body, others) ==
    /\ ~InFlight(p)
    /\ Cardinality({q \in Procs : InFlight(q)}) <= others
    /\ others = 0 => admin.pc = "idle"
    /\ prev' = IF others = 0 THEN prev ELSE NoDelivery
    /\ deliveriesLeft > 0
    /\ deliveriesLeft' = deliveriesLeft - 1
    /\ proc' = [proc EXCEPT ![p] =
            Classify([IdleProc EXCEPT !.pc = "start",
                                      !.from = Trim(From),
                                      !.body = Trim(Body),
                                      !.upper = ToUpperCase(Trim(Body)),
                                      !.today = dayKey(now),
                                      !.pre = redis,
                                      !.preNow = now])]
    /\ UNCHANGED <<redis, now, admin, keyword, ticksLeft, cli>>

\* The response is sent and the invocation ends.
\* remember: the delivery is kept in prev, for the properties of two
\* deliveries in a row.
Finish(p, remember) ==
    /\ proc[p].pc = "done"
    /\ proc' = [proc EXCEPT ![p] = IdleProc]
    /\ prev' = IF remember /\ \A q \in Procs \ {p} : ~InFlight(q)
                THEN Summary(proc[p]) ELSE NoDelivery
    /\ UNCHANGED <<redis, now, admin, keyword, deliveriesLeft, ticksLeft, cli>>

OPTOUT_TTL == 31536000

\* Mutant of RecordOptOutOp: a second STOP toggles the flag off.
RecordOptOutOp_Toggle(p) ==
    /\ proc[p].pc = "recordOptOut"
    /\ \E op \in proc[p].pend :
        /\ redis' = IF op = "set"
                        THEN IF Has(redis, K_OPTOUT(proc[p].from))
                                THEN Del(redis, K_OPTOUT(proc[p].from))
                                ELSE SetEx(redis, K_OPTOUT(proc[p].from), "1", OPTOUT_TTL, now)
                        ELSE Sadd(redis, K_OPTOUT_INDEX, proc[p].from)
        /\ proc' = [proc EXCEPT ![p] =
                IF proc[p].pend = {op} THEN Silent(proc[p])
                                       ELSE [proc[p] EXCEPT !.pend = @ \ {op}]]
    /\ UNCHANGED <<now, keyword, admin, deliveriesLeft, ticksLeft, prev, cli>>
\* lib/optout.js recordOptOut: SET optout:<phone> 1 EX one year, and SADD to
\* the index, in parallel; then 204.
RecordOptOutOp(p) ==
    /\ proc[p].pc = "recordOptOut"
    /\ \E op \in proc[p].pend :
        /\ redis' = IF op = "set"
                        THEN SetEx(redis, K_OPTOUT(proc[p].from), "1", OPTOUT_TTL, now)
                        ELSE Sadd(redis, K_OPTOUT_INDEX, proc[p].from)
        /\ proc' = [proc EXCEPT ![p] =
                IF proc[p].pend = {op} THEN Silent(proc[p])
                                       ELSE [proc[p] EXCEPT !.pend = @ \ {op}]]
    /\ UNCHANGED <<now, keyword, admin, deliveriesLeft, ticksLeft, prev, cli>>

\* Mutant of ClearOptOutOp: the call ends once an opt-in word has cleared
\* the opt-out.
ClearOptOutOp_Ends(p) ==
    /\ proc[p].pc \in {"clearOptOut", "rejoinClear"}
    /\ \E op \in proc[p].pend :
        /\ redis' = IF op = "del"
                        THEN Del(redis, K_OPTOUT(proc[p].from))
                        ELSE Srem(redis, K_OPTOUT_INDEX, proc[p].from)
        /\ proc' = [proc EXCEPT ![p] =
                IF proc[p].pend # {op} THEN [proc[p] EXCEPT !.pend = @ \ {op}]
                ELSE IF proc[p].pc = "clearOptOut" THEN Silent(proc[p])
                ELSE KeywordGate([proc[p] EXCEPT !.pend = {}])]
    /\ UNCHANGED <<now, keyword, admin, deliveriesLeft, ticksLeft, prev, cli>>
\* lib/optout.js clearOptOut: DEL optout:<phone> and SREM from the index, in
\* parallel. Called for an opt-in word (sms.js 265-270, then the opt-out
\* check) and for rejoin-by-keyword (sms.js 285-290, then the keyword gate).
ClearOptOutOp(p) ==
    /\ proc[p].pc \in {"clearOptOut", "rejoinClear"}
    /\ \E op \in proc[p].pend :
        /\ redis' = IF op = "del"
                        THEN Del(redis, K_OPTOUT(proc[p].from))
                        ELSE Srem(redis, K_OPTOUT_INDEX, proc[p].from)
        /\ proc' = [proc EXCEPT ![p] =
                IF proc[p].pend # {op} THEN [proc[p] EXCEPT !.pend = @ \ {op}]
                ELSE IF proc[p].pc = "clearOptOut"
                    THEN Goto([proc[p] EXCEPT !.pend = {}], "isOptedOut", "optOutCheck")
                ELSE KeywordGate([proc[p] EXCEPT !.pend = {}])]
    /\ UNCHANGED <<now, keyword, admin, deliveriesLeft, ticksLeft, prev, cli>>

\* Mutant of IsOptedOut: an opted-out sender is let through.
IsOptedOut_NoExit(p) ==
    /\ proc[p].pc = "isOptedOut"
    /\ LET still == GetFlag(redis, K_OPTOUT(proc[p].from))
           r == [proc[p] EXCEPT !.stillOptedOut = still]
       IN proc' = [proc EXCEPT ![p] =
            IF still /\ RejoinByKeyword(r.upper)
                THEN [Goto(r, "rejoinClear", "rejoin") EXCEPT !.pend = {"del", "srem"}]
            ELSE KeywordGate(r)]
    /\ UNCHANGED <<redis, now, keyword, admin, deliveriesLeft, ticksLeft, prev, cli>>
\* sms.js 272-298: isOptedOut, the opted-out exit, rejoin, the keyword gate.
IsOptedOut(p) ==
    /\ proc[p].pc = "isOptedOut"
    /\ LET still == GetFlag(redis, K_OPTOUT(proc[p].from))
           r == [proc[p] EXCEPT !.stillOptedOut = still]
       IN proc' = [proc EXCEPT ![p] =
            IF still /\ ~RejoinByKeyword(r.upper)
                THEN Silent([r EXCEPT !.path = @ \cup {"optedOut"}])
            ELSE IF still
                THEN [Goto(r, "rejoinClear", "rejoin") EXCEPT !.pend = {"del", "srem"}]
            ELSE KeywordGate(r)]
    /\ UNCHANGED <<redis, now, keyword, admin, deliveriesLeft, ticksLeft, prev, cli>>

\* Mutant of GuardEntry: a missing identifier is not put to the format test.
GuardEntry_EmptyPasses(r) ==
    IF US_ONLY /\ r.from # <<>> /\ ~IsE164US(r.from)
        THEN Silent([r EXCEPT !.path = @ \cup {"guard", "formatRejected"}])
        ELSE Goto([r EXCEPT !.path = @ \cup {"guard"}], "isBlocked", "blockCheck")
\* Mutant of GuardEntry: the format gate is switched off.
GuardEntry_AnyFormat(r) ==
    Goto([r EXCEPT !.path = @ \cup {"guard"}], "isBlocked", "blockCheck")
\* lib/abuse.js runUnknownAbuseGuards, stage 1, up to the await of isBlocked.
GuardEntry(r) ==
    IF US_ONLY /\ ~IsE164US(r.from)
        THEN Silent([r EXCEPT !.path = @ \cup {"guard", "formatRejected"}])
        ELSE Goto([r EXCEPT !.path = @ \cup {"guard"}], "isBlocked", "blockCheck")

\* Mutant of WhitelistCheck: the block set is consulted before the
\* whitelist.
WhitelistCheck_BlockFirst(p) ==
    /\ proc[p].pc = "whitelist"
    /\ proc' = [proc EXCEPT ![p] =
            IF Sismember(redis, K_ABUSE_SET, proc[p].from)
                THEN Silent(proc[p])
            ELSE IF Sismember(redis, K_WHITELIST, proc[p].from)
                THEN Reply(proc[p], "REPLY_SECRET")
            ELSE GuardEntry(proc[p])]
    /\ UNCHANGED <<redis, now, keyword, admin, deliveriesLeft, ticksLeft, prev, cli>>

\* Mutant of WhitelistCheck: the reply to a guest is counted in the global
\* daily counter.
WhitelistCheck_Counted(p) ==
    /\ proc[p].pc = "whitelist"
    /\ proc' = [proc EXCEPT ![p] =
            IF Sismember(redis, K_WHITELIST, proc[p].from)
                THEN Reply(proc[p], "REPLY_SECRET")
                ELSE GuardEntry(proc[p])]
    /\ redis' = IF Sismember(redis, K_WHITELIST, proc[p].from)
                    THEN Incr(redis, K_GLOBAL_DAILY(proc[p].today))
                    ELSE redis
    /\ UNCHANGED <<now, keyword, admin, deliveriesLeft, ticksLeft, prev, cli>>
\* sms.js 300-329: the whitelist lookup, then the abuse guard.
WhitelistCheck(p) ==
    /\ proc[p].pc = "whitelist"
    /\ proc' = [proc EXCEPT ![p] =
            IF Sismember(redis, K_WHITELIST, proc[p].from)
                THEN Reply(proc[p], "REPLY_SECRET")
                ELSE GuardEntry(proc[p])]
    /\ UNCHANGED <<redis, now, keyword, admin, deliveriesLeft, ticksLeft, prev, cli>>

\* Mutant of IsBlocked: a blocked sender's message is turned away and
\* counted in the sender's burst counter.
IsBlocked_Counted(p) ==
    /\ proc[p].pc = "isBlocked"
    /\ IF Sismember(redis, K_ABUSE_SET, proc[p].from)
        THEN /\ redis' = Incr(redis, K_BURST(proc[p].from, now \div BURST_WINDOW_SECONDS))
             /\ proc' = [proc EXCEPT ![p] =
                    Silent([proc[p] EXCEPT !.path = @ \cup {"blockedRejected"}])]
        ELSE /\ redis' = redis
             /\ proc' = [proc EXCEPT ![p] =
                    [Goto(proc[p], "burstIncr", "burst")
                        EXCEPT !.bucket = now \div BURST_WINDOW_SECONDS]]
    /\ UNCHANGED <<now, keyword, admin, deliveriesLeft, ticksLeft, prev, cli>>

\* Mutant of IsBlocked: a blocked sender is turned away once and released.
IsBlocked_Releases(p) ==
    /\ proc[p].pc = "isBlocked"
    /\ IF Sismember(redis, K_ABUSE_SET, proc[p].from)
        THEN /\ redis' = Srem(redis, K_ABUSE_SET, proc[p].from)
             /\ proc' = [proc EXCEPT ![p] =
                    Silent([proc[p] EXCEPT !.path = @ \cup {"blockedRejected"}])]
        ELSE /\ redis' = redis
             /\ proc' = [proc EXCEPT ![p] =
                    [Goto(proc[p], "burstIncr", "burst")
                        EXCEPT !.bucket = now \div BURST_WINDOW_SECONDS]]
    /\ UNCHANGED <<now, keyword, admin, deliveriesLeft, ticksLeft, prev, cli>>
\* Mutant of IsBlocked: the block set is not consulted.
IsBlocked_NotConsulted(p) ==
    /\ proc[p].pc = "isBlocked"
    /\ proc' = [proc EXCEPT ![p] =
            [Goto(proc[p], "burstIncr", "burst")
                EXCEPT !.bucket = now \div BURST_WINDOW_SECONDS]]
    /\ UNCHANGED <<redis, now, keyword, admin, deliveriesLeft, ticksLeft, prev, cli>>
\* lib/abuse.js isBlocked, and the bucket of the burst guard.
IsBlocked(p) ==
    /\ proc[p].pc = "isBlocked"
    /\ proc' = [proc EXCEPT ![p] =
            IF Sismember(redis, K_ABUSE_SET, proc[p].from)
                THEN Silent([proc[p] EXCEPT !.path = @ \cup {"blockedRejected"}])
            ELSE IF MAX_MESSAGES_PER_NUMBER > 0
                THEN [Goto(proc[p], "burstIncr", "burst")
                        EXCEPT !.bucket = now \div BURST_WINDOW_SECONDS]
            ELSE Goto(proc[p], "floodIncr", "flood")]
    /\ UNCHANGED <<redis, now, keyword, admin, deliveriesLeft, ticksLeft, prev, cli>>

\* After the burst counter is written: block above the limit, else go on.
\* Mutant of AfterBurst: the block falls on the message that reaches the
\* limit.
AfterBurst_AtLimit(r) ==
    IF r.burstCount >= MAX_MESSAGES_PER_NUMBER
        THEN Goto(r, "blockSadd", "burstBlock")
        ELSE Goto(r, "floodIncr", "flood")
\* Mutant of AfterBurst: the message after the limit still goes on.
AfterBurst_OneMore(r) ==
    IF r.burstCount > MAX_MESSAGES_PER_NUMBER + 1
        THEN Goto(r, "blockSadd", "burstBlock")
        ELSE Goto(r, "floodIncr", "flood")
AfterBurst(r) ==
    IF r.burstCount > MAX_MESSAGES_PER_NUMBER
        THEN Goto(r, "blockSadd", "burstBlock")
        ELSE Goto(r, "floodIncr", "flood")

BURST_TTL_EXTRA == 30

BurstIncr(p) ==
    /\ proc[p].pc = "burstIncr"
    /\ LET key == K_BURST(proc[p].from, proc[p].bucket)
           r == [proc[p] EXCEPT !.burstCount = IncrValue(redis, key)]
       IN /\ redis' = Incr(redis, key)
          /\ proc' = [proc EXCEPT ![p] =
                IF r.burstCount = 1 THEN [r EXCEPT !.pc = "burstExpire"]
                                    ELSE AfterBurst(r)]
    /\ UNCHANGED <<now, keyword, admin, deliveriesLeft, ticksLeft, prev, cli>>

BurstExpire(p) ==
    /\ proc[p].pc = "burstExpire"
    /\ redis' = Expire(redis, K_BURST(proc[p].from, proc[p].bucket),
                       BURST_WINDOW_SECONDS + BURST_TTL_EXTRA, now)
    /\ proc' = [proc EXCEPT ![p] = AfterBurst(proc[p])]
    /\ UNCHANGED <<now, keyword, admin, deliveriesLeft, ticksLeft, prev, cli>>

\* Mutant of BlockScan: the cleanup scans for burst:* , the burst keys of
\* every sender.
BlockScan_AllBurst(p) ==
    /\ proc[p].pc = "blockScan"
    /\ LET found == {k \in DOMAIN redis : k[1] = "burst:"}
       IN proc' = [proc EXCEPT ![p].scanned = found,
                               ![p].pc = IF found = {} THEN "blockHdel" ELSE "blockDel"]
    /\ UNCHANGED <<redis, now, keyword, admin, deliveriesLeft, ticksLeft, prev, cli>>
\* lib/abuse.js permanentlyBlock, entered from the burst guard and from the
\* content check: SADD abuse:index, then SCAN burst:<phone>:* and DEL each
\* key found, then HDEL of the throttle hash's fields; the guard then
\* returns allow: false.
BlockSadd(p) ==
    /\ proc[p].pc = "blockSadd"
    /\ redis' = Sadd(redis, K_ABUSE_SET, proc[p].from)
    /\ proc' = [proc EXCEPT ![p].pc = "blockScan"]
    /\ UNCHANGED <<now, keyword, admin, deliveriesLeft, ticksLeft, prev, cli>>

BlockScan(p) ==
    /\ proc[p].pc = "blockScan"
    /\ LET found == ScanBurst(redis, proc[p].from)
       IN proc' = [proc EXCEPT ![p].scanned = found,
                               ![p].pc = IF found = {} THEN "blockHdel" ELSE "blockDel"]
    /\ UNCHANGED <<redis, now, keyword, admin, deliveriesLeft, ticksLeft, prev, cli>>

BlockDel(p) ==
    /\ proc[p].pc = "blockDel"
    /\ \E k \in proc[p].scanned :
        /\ redis' = Del(redis, k)
        /\ proc' = [proc EXCEPT ![p].scanned = @ \ {k},
                                ![p].pc = IF proc[p].scanned = {k} THEN "blockHdel"
                                                                   ELSE "blockDel"]
    /\ UNCHANGED <<now, keyword, admin, deliveriesLeft, ticksLeft, prev, cli>>

BlockHdel(p) ==
    /\ proc[p].pc = "blockHdel"
    /\ redis' = Hdel(redis, K_PER_NUMBER_HASH(proc[p].from),
                     {"count", "last", "suspicious"})
    /\ proc' = [proc EXCEPT ![p] = Silent(proc[p])]
    /\ UNCHANGED <<now, keyword, admin, deliveriesLeft, ticksLeft, prev, cli>>

\* Mutant of AfterFlood: the threshold never turns defensive mode on.
AfterFlood_NoDefence(r) == [r EXCEPT !.pc = "getDefensive"]

\* lib/abuse.js incrementGlobalUnknown and the defensive-mode check.
AfterFlood(r) ==
    IF r.floodCount > UNKNOWN_MESSAGE_THRESHOLD
        THEN [r EXCEPT !.pc = "floodSet"]
        ELSE [r EXCEPT !.pc = "getDefensive"]

FloodIncr(p) ==
    /\ proc[p].pc = "floodIncr"
    /\ LET r == [proc[p] EXCEPT !.floodCount = IncrValue(redis, K_UNKNOWN_WINDOW)]
       IN /\ redis' = Incr(redis, K_UNKNOWN_WINDOW)
          /\ proc' = [proc EXCEPT ![p] =
                IF r.floodCount = 1 THEN [r EXCEPT !.pc = "floodExpire"]
                                    ELSE AfterFlood(r)]
    /\ UNCHANGED <<now, keyword, admin, deliveriesLeft, ticksLeft, prev, cli>>

FloodExpire(p) ==
    /\ proc[p].pc = "floodExpire"
    /\ redis' = Expire(redis, K_UNKNOWN_WINDOW, UNKNOWN_WINDOW_MINUTES * 60, now)
    /\ proc' = [proc EXCEPT ![p] = AfterFlood(proc[p])]
    /\ UNCHANGED <<now, keyword, admin, deliveriesLeft, ticksLeft, prev, cli>>

FloodSet(p) ==
    /\ proc[p].pc = "floodSet"
    /\ redis' = SetEx(redis, K_DEFENSIVE_MODE, "1", DEFENSIVE_MODE_DURATION_SEC, now)
    /\ proc' = [proc EXCEPT ![p].pc = "getDefensive"]
    /\ UNCHANGED <<now, keyword, admin, deliveriesLeft, ticksLeft, prev, cli>>

\* The defensive-mode check, then the content check up to its first await;
\* a message that passes both leaves the guard (allow) for sms.js 331-333.
GetDefensive(p) ==
    /\ proc[p].pc = "getDefensive"
    /\ proc' = [proc EXCEPT ![p] =
            IF GetFlag(redis, K_DEFENSIVE_MODE)
                THEN Silent([proc[p] EXCEPT !.path = @ \cup {"defensiveRejected"}])
            ELSE IF IsSuspicious(proc[p].body)
                THEN Goto(proc[p], "suspIncr", "suspicious")
            ELSE Goto([proc[p] EXCEPT !.path = @ \cup {"allowed"}],
                      "globalGet", "throttle")]
    /\ UNCHANGED <<redis, now, keyword, admin, deliveriesLeft, ticksLeft, prev, cli>>

\* lib/abuse.js incrSuspicious and the escalation.
SuspIncr(p) ==
    /\ proc[p].pc = "suspIncr"
    /\ LET key == K_PER_NUMBER_HASH(proc[p].from)
       IN /\ redis' = Hincrby(redis, key, "suspicious", 1)
          /\ proc' = [proc EXCEPT ![p].badCount = HincrbyValue(redis, key, "suspicious", 1),
                                  ![p].pc = "suspExpire"]
    /\ UNCHANGED <<now, keyword, admin, deliveriesLeft, ticksLeft, prev, cli>>

\* Mutant of SuspExpire: the block comes one message later.
SuspExpire_Late(p) ==
    /\ proc[p].pc = "suspExpire"
    /\ redis' = Expire(redis, K_PER_NUMBER_HASH(proc[p].from), TTL_PER_NUMBER_HASH, now)
    /\ proc' = [proc EXCEPT ![p] =
            IF proc[p].badCount > SUSPICIOUS_BLOCK_AT
                THEN Goto(proc[p], "blockSadd", "suspiciousBlock")
                ELSE Silent(proc[p])]
    /\ UNCHANGED <<now, keyword, admin, deliveriesLeft, ticksLeft, prev, cli>>
SuspExpire(p) ==
    /\ proc[p].pc = "suspExpire"
    /\ redis' = Expire(redis, K_PER_NUMBER_HASH(proc[p].from), TTL_PER_NUMBER_HASH, now)
    /\ proc' = [proc EXCEPT ![p] =
            IF proc[p].badCount >= SUSPICIOUS_BLOCK_AT
                THEN Goto(proc[p], "blockSadd", "suspiciousBlock")
                ELSE Silent(proc[p])]
    /\ UNCHANGED <<now, keyword, admin, deliveriesLeft, ticksLeft, prev, cli>>

\* Mutant of GlobalGet: a message turned away at the cap is counted.
GlobalGet_CountsRejected(p) ==
    /\ proc[p].pc = "globalGet"
    /\ LET key == K_GLOBAL_DAILY(proc[p].today)
           r == [proc[p] EXCEPT !.globalCount = GetNumber(redis, key)]
           capped == GLOBAL_MAX_PER_DAY # 0 /\ r.globalCount >= GLOBAL_MAX_PER_DAY
       IN /\ proc' = [proc EXCEPT ![p] =
                IF capped
                    THEN Silent([r EXCEPT !.path = @ \cup {"globalCapRejected"}])
                    ELSE [r EXCEPT !.pc = "throttleGet", !.pend = {"count", "last"}]]
          /\ redis' = IF capped THEN Incr(redis, key) ELSE redis
    /\ UNCHANGED <<now, keyword, admin, deliveriesLeft, ticksLeft, prev, cli>>
\* Mutant of GlobalGet: the counter is read and the cap is not applied.
GlobalGet_NoCap(p) ==
    /\ proc[p].pc = "globalGet"
    /\ proc' = [proc EXCEPT ![p] =
            [proc[p] EXCEPT
                !.globalCount = GetNumber(redis, K_GLOBAL_DAILY(proc[p].today)),
                !.pc = "throttleGet", !.pend = {"count", "last"}]]
    /\ UNCHANGED <<redis, now, keyword, admin, deliveriesLeft, ticksLeft, prev, cli>>
\* sms.js 331-349: the global daily cap, then the reads of the throttle hash.
GlobalGet(p) ==
    /\ proc[p].pc = "globalGet"
    /\ LET r == [proc[p] EXCEPT
                    !.globalCount = GetNumber(redis, K_GLOBAL_DAILY(proc[p].today))]
       IN proc' = [proc EXCEPT ![p] =
            IF GLOBAL_MAX_PER_DAY # 0 /\ r.globalCount >= GLOBAL_MAX_PER_DAY
                THEN Silent([r EXCEPT !.path = @ \cup {"globalCapRejected"}])
                ELSE [r EXCEPT !.pc = "throttleGet", !.pend = {"count", "last"}]]
    /\ UNCHANGED <<redis, now, keyword, admin, deliveriesLeft, ticksLeft, prev, cli>>

\* Mutant of ThrottleDecide: the per-number cap is not tested.
ThrottleDecide_NoNumberCap(r, t) ==
    IF r.lastMs # 0 /\ t - r.lastMs < MIN_REPLY_COOLDOWN_MIN * 60
        THEN Silent([r EXCEPT !.nowMs = t, !.path = @ \cup {"cooldownRejected"}])
    ELSE [Goto(r, "record", "record") EXCEPT
            !.nowMs = t, !.pend = {"hincrby", "hset", "expire", "incr"}]
\* Mutant of ThrottleDecide: the cooldown is not tested.
ThrottleDecide_NoCooldown(r, t) ==
    IF MAX_PER_NUMBER_PER_DAY # 0 /\ r.numberCount >= MAX_PER_NUMBER_PER_DAY
        THEN Silent([r EXCEPT !.nowMs = t, !.path = @ \cup {"numberCapRejected"}])
    ELSE [Goto(r, "record", "record") EXCEPT
            !.nowMs = t, !.pend = {"hincrby", "hset", "expire", "incr"}]
\* sms.js 351-372, after the throttle state is read: cooldown, per-number
\* cap, and the writes of the reply's record are issued.
ThrottleDecide(r, t) ==
    IF r.lastMs # 0 /\ t - r.lastMs < MIN_REPLY_COOLDOWN_MIN * 60
        THEN Silent([r EXCEPT !.nowMs = t, !.path = @ \cup {"cooldownRejected"}])
    ELSE IF MAX_PER_NUMBER_PER_DAY # 0 /\ r.numberCount >= MAX_PER_NUMBER_PER_DAY
        THEN Silent([r EXCEPT !.nowMs = t, !.path = @ \cup {"numberCapRejected"}])
    ELSE [Goto(r, "record", "record") EXCEPT
            !.nowMs = t, !.pend = {"hincrby", "hset", "expire", "incr"}]

\* lib/throttle.js getUnknownThrottleState: HGET count and HGET last, in
\* parallel.
ThrottleGet(p) ==
    /\ proc[p].pc = "throttleGet"
    /\ \E op \in proc[p].pend :
        LET key == K_PER_NUMBER_HASH(proc[p].from)
            r == IF op = "count"
                    THEN [proc[p] EXCEPT !.numberCount = HgetNumber(redis, key, "count"),
                                         !.pend = @ \ {op}]
                    ELSE [proc[p] EXCEPT !.lastMs = HgetNumber(redis, key, "last"),
                                         !.pend = @ \ {op}]
        IN proc' = [proc EXCEPT ![p] = IF r.pend = {} THEN ThrottleDecide(r, now) ELSE r]
    /\ UNCHANGED <<redis, now, keyword, admin, deliveriesLeft, ticksLeft, prev, cli>>

\* sms.js 374-386: Promise.all of recordUnknownReply (HINCRBY count, HSET
\* last, EXPIRE of the hash, in parallel) and of INCR of the global daily
\* counter followed by its EXPIRE; then the fallback reply is sent.
RecordApply(R, r, op, t) ==
    LET key == K_PER_NUMBER_HASH(r.from)
        gkey == K_GLOBAL_DAILY(r.today)
    IN CASE op = "hincrby" -> Hincrby(R, key, "count", 1)
         [] op = "hset" -> Hset(R, key, "last", r.nowMs)
         [] op = "expire" -> Expire(R, key, TTL_PER_NUMBER_HASH, t)
         [] op = "incr" -> Incr(R, gkey)
         [] op = "globalExpire" -> Expire(R, gkey, TTL_GLOBAL_DAILY, t)

RecordOp(p) ==
    /\ proc[p].pc = "record"
    /\ \E op \in proc[p].pend :
        LET left == (proc[p].pend \ {op})
                        \cup (IF op = "incr" THEN {"globalExpire"} ELSE {})
        IN /\ redis' = RecordApply(redis, proc[p], op, now)
           /\ proc' = [proc EXCEPT ![p] =
                    IF left = {} THEN Reply(proc[p], "REPLY_FALLBACK")
                                 ELSE [proc[p] EXCEPT !.pend = left]]
    /\ UNCHANGED <<now, keyword, admin, deliveriesLeft, ticksLeft, prev, cli>>

(***************************************************************************)
(* Store failures: a store call of the handler rejects, the catch of       *)
(* sms.js answers 500.  The other calls of a Promise.all are already       *)
(* issued: each is applied or lost after the response.                     *)
(***************************************************************************)
\* Mutant of StoreFails: the failure is taken for a denial, and answered 204.
StoreFails_Denies(p) ==
    /\ proc[p].pc \notin {"idle", "done", "drain"}
    /\ \E op \in (IF proc[p].pend = {} THEN {"call"} ELSE proc[p].pend) :
        LET left == proc[p].pend \ {op}
        IN proc' = [proc EXCEPT ![p] =
                [proc[p] EXCEPT !.outcome = "SILENT",
                                !.path = @ \cup {"failed"},
                                !.pend = left,
                                !.pc = IF left = {} THEN "done" ELSE "drain"]]
    /\ UNCHANGED <<redis, now, keyword, admin, deliveriesLeft, ticksLeft, prev, cli>>

\* sms.js 387-393: the awaited call (or one call of the awaited
\* Promise.all) throws; the handler answers 500 with the error's message.
StoreFails(p) ==
    /\ proc[p].pc \notin {"idle", "done", "drain"}
    /\ \E op \in (IF proc[p].pend = {} THEN {"call"} ELSE proc[p].pend) :
        LET left == proc[p].pend \ {op}
        IN proc' = [proc EXCEPT ![p] =
                [proc[p] EXCEPT !.outcome = "ERROR",
                                !.path = @ \cup {"failed"},
                                !.pend = left,
                                !.pc = IF left = {} THEN "done" ELSE "drain"]]
    /\ UNCHANGED <<redis, now, keyword, admin, deliveriesLeft, ticksLeft, prev, cli>>

\* The effect of one call of a Promise.all on the store.
PendApply(R, r, op, t) ==
    CASE op = "set" -> SetEx(R, K_OPTOUT(r.from), "1", OPTOUT_TTL, t)
      [] op = "sadd" -> Sadd(R, K_OPTOUT_INDEX, r.from)
      [] op = "del" -> Del(R, K_OPTOUT(r.from))
      [] op = "srem" -> Srem(R, K_OPTOUT_INDEX, r.from)
      [] op \in {"count", "last"} -> R
      [] OTHER -> RecordApply(R, r, op, t)

\* The calls of the Promise.all that were in flight when one of them failed.
Drain(p) ==
    /\ proc[p].pc = "drain"
    /\ \E op \in proc[p].pend, applied \in BOOLEAN :
        LET left == (proc[p].pend \ {op})
                        \cup (IF op = "incr" /\ applied THEN {"globalExpire"} ELSE {})
        IN /\ redis' = IF applied THEN PendApply(redis, proc[p], op, now) ELSE redis
           /\ proc' = [proc EXCEPT ![p] =
                    [proc[p] EXCEPT !.pend = left,
                                    !.pc = IF left = {} THEN "done" ELSE "drain"]]
    /\ UNCHANGED <<now, keyword, admin, deliveriesLeft, ticksLeft, prev, cli>>

(***************************************************************************)
(* Time: the clock advances, and the keys past their expiry are gone.      *)
(***************************************************************************)
Tick(d, quiet) ==
    /\ quiet => Quiet
    /\ MoreToCome
    /\ ticksLeft > 0
    /\ ticksLeft' = ticksLeft - 1
    /\ now' = now + d
    /\ redis' = Purge(redis, now + d)
    /\ UNCHANGED <<proc, keyword, admin, deliveriesLeft, prev, cli>>

(***************************************************************************)
(* Admin operations.                                                       *)
(***************************************************************************)
IdleAdmin == [pc |-> "idle", phone |-> <<>>, scanned |-> {}]

DigitsOf(s) == SelectSeq(s, LAMBDA c : c \in Digits)

\* api/admin/unblock.js normalizeToE164US; <<>> stands for the thrown error.
normalizeToE164US(input) ==
    LET trimmed == Trim(input)
        digits == DigitsOf(trimmed)
    IN IF input = <<>> THEN <<>>
       ELSE IF IsE164US(trimmed) THEN trimmed
       ELSE IF Len(digits) = 10 THEN <<"+", "1">> \o digits
       ELSE IF Len(digits) = 11 /\ digits[1] = "1" THEN <<"+">> \o digits
       ELSE <<>>

\* lib/utils.js assertE164US; <<>> stands for the thrown error.
assertE164US(input) == IF IsE164US(Trim(input)) THEN Trim(input) ELSE <<>>

\* api/admin/unblock.js handler with a valid token, up to its first await.
\* alone: the request is handled while no delivery is in flight.
UnblockStart(input, alone) ==
    /\ admin.pc = "idle"
    /\ MoreToCome
    /\ alone => \A q \in Procs : ~InFlight(q)
    /\ normalizeToE164US(input) # <<>>
    /\ admin' = [IdleAdmin EXCEPT !.pc = "srem", !.phone = normalizeToE164US(input)]
    /\ UNCHANGED <<redis, now, proc, keyword, deliveriesLeft, ticksLeft, prev, cli>>

\* 1) SREM abuse:index
UnblockSrem ==
    /\ admin.pc = "srem"
    /\ redis' = Srem(redis, K_ABUSE_SET, admin.phone)
    /\ admin' = [admin EXCEPT !.pc = "del"]
    /\ UNCHANGED <<now, proc, keyword, deliveriesLeft, ticksLeft, prev, cli>>

\* 2) DEL rl:num:<phone>
UnblockDel ==
    /\ admin.pc = "del"
    /\ redis' = Del(redis, K_PER_NUMBER_HASH(admin.phone))
    /\ admin' = [admin EXCEPT !.pc = "scan"]
    /\ UNCHANGED <<now, proc, keyword, deliveriesLeft, ticksLeft, prev, cli>>

\* 3) deleteByPattern(burst:<phone>:*): SCAN, then DEL of each key found.
UnblockScan ==
    /\ admin.pc = "scan"
    /\ LET found == ScanBurst(redis, admin.phone)
       IN admin' = IF found = {} THEN IdleAdmin
                   ELSE [admin EXCEPT !.pc = "delKeys", !.scanned = found]
    /\ UNCHANGED <<redis, now, proc, keyword, deliveriesLeft, ticksLeft, prev, cli>>

\* Mutant of UnblockDelKey: the loop ends after the first key.
UnblockDelKey_FirstOnly ==
    /\ admin.pc = "delKeys"
    /\ \E k \in admin.scanned :
        /\ redis' = Del(redis, k)
        /\ admin' = IdleAdmin
    /\ UNCHANGED <<now, proc, keyword, deliveriesLeft, ticksLeft, prev, cli>>
UnblockDelKey ==
    /\ admin.pc = "delKeys"
    /\ \E k \in admin.scanned :
        /\ redis' = Del(redis, k)
        /\ admin' = IF admin.scanned = {k} THEN IdleAdmin
                    ELSE [admin EXCEPT !.scanned = @ \ {k}]
    /\ UNCHANGED <<now, proc, keyword, deliveriesLeft, ticksLeft, prev, cli>>

\* api/admin/whitelist-remove.js handler with a valid token: SREM whitelist.
WhitelistRemove(input) ==
    /\ Quiet
    /\ MoreToCome
    /\ assertE164US(input) # <<>>
    /\ Sismember(redis, K_WHITELIST, assertE164US(input))
    /\ redis' = Srem(redis, K_WHITELIST, assertE164US(input))
    /\ UNCHANGED <<now, proc, admin, keyword, deliveriesLeft, ticksLeft, prev, cli>>

\* README: guests are added with SADD whitelist <phone>.
WhitelistAdd(phone) ==
    /\ Quiet
    /\ MoreToCome
    /\ ~Sismember(redis, K_WHITELIST, phone)
    /\ redis' = Sadd(redis, K_WHITELIST, phone)
    /\ UNCHANGED <<now, proc, admin, keyword, deliveriesLeft, ticksLeft, prev, cli>>

(***************************************************************************)
(* tools/bulk-admin.mjs, the bulk admin CLI.  cli holds one run: the       *)
(* prepared list, runPool's idx, active and results, each worker's         *)
(* position and attempt, and, as history, how often each item was handed   *)
(* to the worker (handed) and how often callEndpoint was called for it     *)
(* (sent).  The code's indices start at 0, the model's at 1: idx is the    *)
(* number of items handed out.  The limit is kept doubled (limit2), so     *)
(* that --concurrency=2.5 is an input.  Code between two awaits is one     *)
(* step.                                                                   *)
(***************************************************************************)
max == 3
DEFAULT_CONCURRENCY == 5

IdleCli == [pc |-> "idle", prepared |-> <<>>, limit2 |-> 0, idx |-> 0, active |-> 0,
            results |-> <<>>, worker |-> <<>>, handed |-> <<>>, sent |-> <<>>,
            ok |-> 0, fail |-> 0, exitCode |-> 0]

\* parsePhonesBlob: the tokens in order, each kept the first time it is seen.
RECURSIVE Unique(_, _)
Unique(tokens, seen) ==
    IF tokens = <<>> THEN <<>>
    ELSE IF Head(tokens) \in seen THEN Unique(Tail(tokens), seen)
    ELSE <<Head(tokens)>> \o Unique(Tail(tokens), seen \cup {Head(tokens)})

parsePhonesBlob(tokens) == Unique(tokens, {})

\* The loop "normalize & keep only valid"; the CLI's normalizeToE164US
\* (bulk-admin.mjs 66-79) is the same function as the one of unblock.js.
RECURSIVE Prepare(_)
Prepare(rawPhones) ==
    IF rawPhones = <<>> THEN <<>>
    ELSE LET e164 == normalizeToE164US(Head(rawPhones))
         IN (IF e164 = <<>> THEN <<>> ELSE <<e164>>) \o Prepare(Tail(rawPhones))

\* The values of --concurrency that Number() turns into a finite number:
\* "absent" is no flag (the default), "bare" is --concurrency without a
\* value, which getFlag returns as true and Number turns into 1.
FiniteFlags == {"absent", "bare", "0", "1", "2", "2.5"}

\* Twice Number(getFlag('concurrency', 5)), for a finite value.
concurrency2(flag) ==
    CASE flag = "absent" -> 2 * DEFAULT_CONCURRENCY
      [] flag = "bare" -> 2
      [] flag = "0" -> 0
      [] flag = "1" -> 2
      [] flag = "2" -> 4
      [] flag = "2.5" -> 5

\* Twice Math.max(1, Number.isFinite(concurrency) ? concurrency : 5).
Limit2(flag) ==
    LET c == IF flag \in FiniteFlags THEN concurrency2(flag) ELSE 2 * DEFAULT_CONCURRENCY
    IN IF c > 2 THEN c ELSE 2

\* The while loop of runPool's next(): workers are started while
\* active < limit and items are left.  A started worker runs up to its
\* first await: attempt 1, callEndpoint called.
RECURSIVE StartWorkers(_)
StartWorkers(c) ==
    IF c.active * 2 < c.limit2 /\ c.idx < Len(c.prepared)
    THEN StartWorkers([c EXCEPT !.idx = @ + 1,
                                !.active = @ + 1,
                                !.worker[c.idx + 1] = [st |-> "calling", attempt |-> 1],
                                !.handed[c.idx + 1] = @ + 1,
                                !.sent[c.idx + 1] = @ + 1])
    ELSE c

\* runPool's next().
next(c) ==
    IF c.idx >= Len(c.prepared) /\ c.active = 0
    THEN [c EXCEPT !.pc = "resolved"]
    ELSE StartWorkers(c)

\* runPool(items, worker, limit) up to the return of its promise.
runPool(items, limit2) ==
    next([IdleCli EXCEPT !.pc = "pool",
                         !.prepared = items,
                         !.limit2 = limit2,
                         !.results = [i \in 1..Len(items) |-> "hole"],
                         !.worker = [i \in 1..Len(items) |-> [st |-> "new", attempt |-> 0]],
                         !.handed = [i \in 1..Len(items) |-> 0],
                         !.sent = [i \in 1..Len(items) |-> 0]])

Frame == UNCHANGED <<redis, now, proc, admin, keyword, deliveriesLeft, ticksLeft, prev>>

\* The main function from the start to the call of runPool: no numbers,
\* exit 1; --dry-run, exit 0 without a request.
CliRun(tokens, flag, dryRun) ==
    /\ cli.pc = "idle"
    /\ LET rawPhones == parsePhonesBlob(tokens)
           prepared == Prepare(rawPhones)
       IN cli' = IF rawPhones = <<>>
                 THEN [IdleCli EXCEPT !.pc = "exit", !.exitCode = 1]
                 ELSE IF dryRun
                 THEN [IdleCli EXCEPT !.pc = "exit", !.prepared = prepared]
                 ELSE runPool(prepared, Limit2(flag))
    /\ Frame

\* callEndpoint resolves: the worker returns res.
CallReturns(i) ==
    /\ cli.pc = "pool"
    /\ i \in DOMAIN cli.worker
    /\ cli.worker[i].st = "calling"
    /\ cli' = [cli EXCEPT !.worker[i].st = "returned"]
    /\ Frame

\* Mutant of CallThrows: the worker gives up at the first failure.
CallThrows_NoRetry(i) ==
    /\ cli.pc = "pool"
    /\ i \in DOMAIN cli.worker
    /\ cli.worker[i].st = "calling"
    /\ cli' = [cli EXCEPT !.worker[i].st = "threw"]
    /\ Frame
\* callEndpoint throws (fetch rejects, or the response is not ok): the
\* worker waits 400 ms * attempt if an attempt is left, else throws lastErr.
CallThrows(i) ==
    /\ cli.pc = "pool"
    /\ i \in DOMAIN cli.worker
    /\ cli.worker[i].st = "calling"
    /\ cli' = [cli EXCEPT !.worker[i].st =
                             IF cli.worker[i].attempt < max THEN "backoff" ELSE "threw"]
    /\ Frame

\* The backoff timer fires: while (attempt < max), attempt++, callEndpoint.
BackoffEnds(i) ==
    /\ cli.pc = "pool"
    /\ i \in DOMAIN cli.worker
    /\ cli.worker[i].st = "backoff"
    /\ cli' = [cli EXCEPT !.worker[i] = [st |-> "calling", attempt |-> @.attempt + 1],
                          !.sent[i] = @ + 1]
    /\ Frame

\* .then / .catch of runPool: results[i] is written.
Settle(i) ==
    /\ cli.pc = "pool"
    /\ i \in DOMAIN cli.worker
    /\ cli.worker[i].st \in {"returned", "threw"}
    /\ cli' = [cli EXCEPT !.results[i] = IF cli.worker[i].st = "returned" THEN "ok" ELSE "error",
                          !.worker[i].st = "settled"]
    /\ Frame

\* .finally of runPool: active--, next().
Finally(i) ==
    /\ cli.pc = "pool"
    /\ i \in DOMAIN cli.worker
    /\ cli.worker[i].st = "settled"
    /\ cli' = next([cli EXCEPT !.active = @ - 1, !.worker[i].st = "finished"])
    /\ Frame

\* The main function after await runPool: the summary and the exit code.
Report ==
    /\ cli.pc = "resolved"
    /\ LET ok == Cardinality({i \in DOMAIN cli.results : cli.results[i] = "ok"})
           fail == Len(cli.results) - ok
       IN cli' = [cli EXCEPT !.pc = "exit", !.ok = ok, !.fail = fail,
                             !.exitCode = IF fail > 0 THEN 1 ELSE 0]
    /\ Frame

(***************************************************************************)
(* Inputs.                                                                 *)
(***************************************************************************)
GuestPhone == <<"+", "1", "5", "5", "5", "1", "2", "3", "4", "5", "6", "7">>
UnknownPhone == <<"+", "1", "5", "5", "5", "9", "9", "9", "0", "0", "0", "0">>
UKPhone == <<"+", "4", "4", "7", "9", "1", "1", "1", "2", "3", "4", "5", "6">>

B_password == <<"p", "a", "s", "s", "w", "o", "r", "d">>
B_stop == <<"s", "t", "o", "p">>
B_start_password == <<"s", "t", "a", "r", "t", " ", "p", "a", "s", "s", "w", "o", "r", "d">>
B_stop_help == <<"S", "T", "O", "P", " ", "H", "E", "L", "P">>
B_hello == <<"h", "e", "l", "l", "o">>
B_url == <<"p", "a", "s", "s", "w", "o", "r", "d", " ", "h", "t", "t", "p", ":", "/", "/", "x">>
B_help == <<"h", "e", "l", "p">>

\* The store of a fresh deployment: the seeded whitelist.
SeededStore == K_WHITELIST :> [v |-> {GuestPhone}, exp |-> NoTTL]
\* The same after UnknownPhone was blocked by the burst guard: it is in
\* abuse:index, and permanentlyBlock removed its burst keys and hash fields.
BlockedStore == Sadd(SeededStore, K_ABUSE_SET, UnknownPhone)

InitWith(stores, keywords, deliveries, clockSteps) ==
    /\ redis \in stores
    /\ now = Epoch
    /\ proc = [p \in Procs |-> IdleProc]
    /\ admin = IdleAdmin
    /\ cli = IdleCli
    /\ keyword \in keywords
    /\ prev = NoDelivery
    /\ deliveriesLeft = deliveries
    /\ ticksLeft = clockSteps

(***************************************************************************)
(* Spec: deliveries handled one at a time, any sender and body of the      *)
(* inputs, the admin operations between deliveries, the clock advancing.   *)
(***************************************************************************)
Senders == {GuestPhone, UnknownPhone, UKPhone}
Bodies == {B_password, B_stop, B_start_password, B_help, B_hello, B_url, B_stop_help}
TickSteps == {30, 180}

Init == InitWith({SeededStore, BlockedStore}, {<<>>, W_PASSWORD}, MaxDeliveries, MaxTicks)

Pipeline(p) ==
    \/ RecordOptOutOp(p)
    \/ ClearOptOutOp(p)
    \/ IsOptedOut(p)
    \/ WhitelistCheck(p)
    \/ IsBlocked(p)
    \/ BurstIncr(p)
    \/ BurstExpire(p)
    \/ FloodIncr(p)
    \/ FloodExpire(p)
    \/ GetDefensive(p)
    \/ SuspIncr(p)
    \/ SuspExpire(p)
    \/ GlobalGet(p)
    \/ ThrottleGet(p)
    \/ RecordOp(p)

Unblock ==
    \/ UnblockSrem
    \/ UnblockDel
    \/ UnblockScan
    \/ UnblockDelKey

Next ==
    \/ \E s \in Senders, b \in Bodies : Start(1, s, b, 0)
    \/ Pipeline(1)
    \/ Finish(1, FALSE)
    \/ \E d \in TickSteps : Tick(d, TRUE)
    \/ UnblockStart(UnknownPhone, TRUE)
    \/ Unblock
    \/ WhitelistAdd(UnknownPhone)
    \/ WhitelistRemove(UnknownPhone)

Spec == Init /\ [][Next]_vars

(***************************************************************************)
(* Vocabulary of the properties.                                           *)
(***************************************************************************)
Done(p) == proc[p].pc = "done"
\* The records of the abuse guard and of the throttle ledger: every key of
\* the store but the whitelist and the opt-out ledger's.
IsOptOutKey(k) == k = K_OPTOUT_INDEX \/ k[1] = "optout:"
AbuseThrottle(R) ==
    [k \in {x \in DOMAIN R : x # K_WHITELIST /\ ~IsOptOutKey(x)} |-> R[k]]
\* The contents of the store without the expiry times.
Values(R) == [k \in DOMAIN R |-> R[k].v]
OptedOut(R, phone) == GetFlag(R, K_OPTOUT(phone))
InOptOutIndex(R, phone) == Sismember(R, K_OPTOUT_INDEX, phone)
Whitelisted(R, phone) == Sismember(R, K_WHITELIST, phone)
Blocked(R, phone) == Sismember(R, K_ABUSE_SET, phone)

(***************************************************************************)
(* C1. A whitelisted sender gets REPLY_SECRET whatever the abuse and       *)
(* throttle records hold, for every body that has no opt-out word and no   *)
(* help word and passes the keyword gate, unless the sender is opted out,  *)
(* the body has no opt-in word and rejoin-by-keyword is not met.           *)
(***************************************************************************)
C1_WhitelistedGetsSecret ==
    \A p \in Procs :
        (/\ Done(p)
         /\ Whitelisted(proc[p].pre, proc[p].from)
         /\ ~OptOutMatch(proc[p].upper)
         /\ ~HelpMatch(proc[p].upper)
         /\ ~KeywordGateFails(proc[p].upper)
         /\ ~(/\ OptedOut(proc[p].pre, proc[p].from)
              /\ ~OptInMatch(proc[p].upper)
              /\ ~RejoinByKeyword(proc[p].upper)))
        => proc[p].outcome = "REPLY_SECRET"

\* C1 as stated: every body, the only exception being an opted-out sender
\* whose message does not meet rejoin-by-keyword.
C1_AsStated ==
    \A p \in Procs :
        (/\ Done(p)
         /\ Whitelisted(proc[p].pre, proc[p].from)
         /\ ~(/\ OptedOut(proc[p].pre, proc[p].from)
              /\ ~RejoinByKeyword(proc[p].upper)))
        => proc[p].outcome = "REPLY_SECRET"

\* A sender that is both in the block set and on the whitelist is answered
\* with the secret.
C1_Witness ==
    \E p \in Procs :
        /\ Done(p)
        /\ Whitelisted(proc[p].pre, proc[p].from)
        /\ Blocked(proc[p].pre, proc[p].from)
        /\ proc[p].outcome = "REPLY_SECRET"

(***************************************************************************)
(* C6. An opted-out sender's message with an opt-in word and the gating    *)
(* keyword (and no opt-out or help word) clears the opt-out and, in the    *)
(* same call, passes the gate and reaches the whitelist check: a guest     *)
(* gets REPLY_SECRET, any other sender goes on to the abuse guard.         *)
(***************************************************************************)
C6_Case(p) ==
    /\ Done(p)
    /\ OptedOut(proc[p].pre, proc[p].from)
    /\ OptInMatch(proc[p].upper)
    /\ keywordRequired # <<>>
    /\ Includes(proc[p].upper, keywordRequired)
    /\ ~OptOutMatch(proc[p].upper)
    /\ ~HelpMatch(proc[p].upper)

C6_OptInAndKeywordInOneCall ==
    \A p \in Procs :
        C6_Case(p) =>
            /\ ~OptedOut(redis, proc[p].from)
            /\ ~InOptOutIndex(redis, proc[p].from)
            /\ "whitelist" \in proc[p].path
            /\ Whitelisted(proc[p].pre, proc[p].from)
                    => proc[p].outcome = "REPLY_SECRET"
            /\ ~Whitelisted(proc[p].pre, proc[p].from)
                    => "guard" \in proc[p].path

C6_Witness ==
    \E p \in Procs : C6_Case(p) /\ proc[p].outcome = "REPLY_SECRET"

(***************************************************************************)
(* C7. An opted-out sender whose message has no help word, no opt-in word  *)
(* and does not meet rejoin-by-keyword gets SILENT, and the opt-out flag   *)
(* stays set.                                                              *)
(***************************************************************************)
C7_Case(p) ==
    /\ Done(p)
    /\ OptedOut(proc[p].pre, proc[p].from)
    /\ ~OptInMatch(proc[p].upper)
    /\ ~RejoinByKeyword(proc[p].upper)

C7_OptedOutStaysSilent ==
    \A p \in Procs :
        (C7_Case(p) /\ ~HelpMatch(proc[p].upper)) =>
            /\ proc[p].outcome = "SILENT"
            /\ OptedOut(redis, proc[p].from)

\* C7 as stated: no reply of any kind, whatever else the message holds.
C7_AsStated ==
    \A p \in Procs :
        C7_Case(p) =>
            /\ proc[p].outcome = "SILENT"
            /\ OptedOut(redis, proc[p].from)

\* The opted-out exit of the pipeline is taken.
C7_Witness ==
    \E p \in Procs :
        /\ C7_Case(p)
        /\ "optedOut" \in proc[p].path
        /\ proc[p].outcome = "SILENT"

(***************************************************************************)
(* C8. A message whose upper-cased text contains an opt-out word records   *)
(* the opt-out for the sender and yields SILENT, whatever other keywords   *)
(* it holds and whatever the sender's whitelist, block and counter state.  *)
(***************************************************************************)
C8_OptOutWins ==
    \A p \in Procs :
        (Done(p) /\ OptOutMatch(proc[p].upper)) =>
            /\ proc[p].outcome = "SILENT"
            /\ OptedOut(redis, proc[p].from)
            /\ InOptOutIndex(redis, proc[p].from)
            /\ proc[p].path = {"optOut"}

\* A message with an opt-out word and a help word, from a guest.
C8_Witness ==
    \E p \in Procs :
        /\ Done(p)
        /\ OptOutMatch(proc[p].upper)
        /\ HelpMatch(proc[p].upper)
        /\ Whitelisted(proc[p].pre, proc[p].from)
        /\ OptedOut(redis, proc[p].from)

C10_Case(p) ==
    /\ Done(p)
    /\ "guard" \in proc[p].path
    /\ ~IsE164US(proc[p].from)

C10_BadFormatRejectedUntouched ==
    \A p \in Procs :
        C10_Case(p) =>
            /\ proc[p].outcome = "SILENT"
            /\ AbuseThrottle(redis) = AbuseThrottle(proc[p].pre)
            /\ ~Blocked(redis, proc[p].from)

\* The second such message in a row from the same store state.
C10_Witness ==
    \E p \in Procs :
        /\ C10_Case(p)
        /\ deliveriesLeft = 0
        /\ "formatRejected" \in proc[p].path

(***************************************************************************)
(* SpecBurst: one unknown sender, deliveries handled one at a time, enough *)
(* of them to pass the burst limit; the clock advances by a burst window   *)
(* or by a day; the admin unblocks the sender.                             *)
(***************************************************************************)
BurstDeliveries == 7
BurstTicks == 2
BurstBodies == {B_password, B_help}
BurstTickSteps == {60, 86400}

InitBurst == InitWith({SeededStore}, {W_PASSWORD}, BurstDeliveries, BurstTicks)

PipelineBurst(p) ==
    \/ IsOptedOut(p)
    \/ WhitelistCheck(p)
    \/ IsBlocked(p)
    \/ BurstIncr(p)
    \/ BurstExpire(p)
    \/ BlockSadd(p)
    \/ BlockScan(p)
    \/ BlockDel(p)
    \/ BlockHdel(p)
    \/ FloodIncr(p)
    \/ FloodExpire(p)
    \/ GetDefensive(p)
    \/ GlobalGet(p)
    \/ ThrottleGet(p)
    \/ RecordOp(p)

NextBurst ==
    \/ \E b \in BurstBodies : Start(1, UnknownPhone, b, 0)
    \/ PipelineBurst(1)
    \/ Finish(1, FALSE)
    \/ \E d \in BurstTickSteps : Tick(d, TRUE)
    \/ UnblockStart(UnknownPhone, TRUE)
    \/ Unblock

SpecBurst == InitBurst /\ [][NextBurst]_vars

(***************************************************************************)
(* C2. The message whose increment takes the sender's burst counter above  *)
(* MAX_MESSAGES_PER_NUMBER puts the sender in the block set and is SILENT, *)
(* and every later message of that sender that has no help word is SILENT, *)
(* whenever it comes, as long as the sender is in the block set (an        *)
(* unblock removes it) and not on the whitelist.                           *)
(***************************************************************************)
C2_BurstBlocksForGood ==
    \A p \in Procs :
        Done(p) =>
            /\ proc[p].burstCount > MAX_MESSAGES_PER_NUMBER =>
                    /\ Blocked(redis, proc[p].from)
                    /\ proc[p].outcome = "SILENT"
            /\ (/\ Blocked(proc[p].pre, proc[p].from)
                /\ ~Whitelisted(proc[p].pre, proc[p].from)
                /\ ~HelpMatch(proc[p].upper))
                    => proc[p].outcome = "SILENT"

\* C2 as stated: every later message, with any body.
C2_AsStated ==
    \A p \in Procs :
        Done(p) =>
            /\ proc[p].burstCount > MAX_MESSAGES_PER_NUMBER =>
                    /\ Blocked(redis, proc[p].from)
                    /\ proc[p].outcome = "SILENT"
            /\ (/\ Blocked(proc[p].pre, proc[p].from)
                /\ ~Whitelisted(proc[p].pre, proc[p].from))
                    => proc[p].outcome = "SILENT"

\* A sender blocked by the burst guard is turned away at the block check a
\* day later.
C2_Witness ==
    \E p \in Procs :
        /\ Done(p)
        /\ "blockedRejected" \in proc[p].path
        /\ proc[p].outcome = "SILENT"
        /\ proc[p].preNow >= Epoch + SecondsPerDay

(***************************************************************************)
(* SpecPair: deliveries handled one at a time, the last one remembered in  *)
(* prev; two unknown senders; the clock advances by less than the         *)
(* cooldown or by the cooldown.                                            *)
(***************************************************************************)
OtherPhone == <<"+", "1", "5", "5", "5", "0", "0", "0", "1", "1", "1", "1">>
PairDeliveries == 4
PairTicks == 2
PairSenders == {UnknownPhone, OtherPhone}
PairBodies == {B_password, B_stop}
PairTickSteps == {60, 180}

InitPair == InitWith({SeededStore}, {W_PASSWORD}, PairDeliveries, PairTicks)

PipelinePair(p) ==
    \/ RecordOptOutOp(p)
    \/ IsOptedOut(p)
    \/ WhitelistCheck(p)
    \/ IsBlocked(p)
    \/ BurstIncr(p)
    \/ BurstExpire(p)
    \/ FloodIncr(p)
    \/ FloodExpire(p)
    \/ GetDefensive(p)
    \/ GlobalGet(p)
    \/ ThrottleGet(p)
    \/ RecordOp(p)

NextPair ==
    \/ \E s \in PairSenders, b \in PairBodies : Start(1, s, b, 0)
    \/ PipelinePair(1)
    \/ Finish(1, TRUE)
    \/ \E d \in PairTickSteps : Tick(d, TRUE)

SpecPair == InitPair /\ [][NextPair]_vars

\* Two deliveries in a row from one sender, the second now complete.
InARow(p) ==
    /\ Done(p)
    /\ prev.outcome # "NONE"
    /\ prev.from = proc[p].from

(***************************************************************************)
(* C4. For deliveries handled one after the other: when an unknown sender  *)
(* with no throttle record passes the abuse guard with two messages in a   *)
(* row less than the cooldown apart, and the global daily counter was      *)
(* below the cap when the first was handled, the first is answered with    *)
(* REPLY_FALLBACK and the second is SILENT.                                *)
(***************************************************************************)
C4_Case(p) ==
    /\ InARow(p)
    /\ "allowed" \in prev.path
    /\ "allowed" \in proc[p].path
    /\ ~prev.hadRecord
    /\ proc[p].preNow - prev.at < MIN_REPLY_COOLDOWN_MIN * 60

C5_Case(p) ==
    /\ InARow(p)
    /\ "optOut" \in prev.path
    /\ "optOut" \in proc[p].path

C5_StopTwice ==
    \A p \in Procs :
        C5_Case(p) =>
            /\ prev.outcome = "SILENT"
            /\ proc[p].outcome = "SILENT"
            /\ OptedOut(proc[p].pre, proc[p].from)
            /\ InOptOutIndex(proc[p].pre, proc[p].from)
            /\ OptedOut(redis, proc[p].from)
            /\ InOptOutIndex(redis, proc[p].from)
            /\ Values(redis) = Values(proc[p].pre)
            /\ redis[K_OPTOUT(proc[p].from)].exp = now + OPTOUT_TTL

C5_Witness ==
    \E p \in Procs :
        /\ C5_Case(p)
        /\ proc[p].from = UnknownPhone
        /\ proc[p].outcome = "SILENT"
        /\ proc[p].preNow > prev.at

(***************************************************************************)
(* SpecConc: two webhook deliveries in flight at once, their store calls   *)
(* interleaved in any order; an unknown sender's messages, delivered after *)
(* another unknown sender was answered once today; the clock advances by a *)
(* day between deliveries.                                                 *)
(***************************************************************************)
ConcDeliveries == 2
ConcTicks == 1
ConcSenders == {UnknownPhone}
ConcBodies == {B_password, B_help}
ConcTickSteps == {86400}

\* The store after OtherPhone's "password" was answered with the fallback at
\* the start of the run: the store calls of that delivery, in program order.
RepliedStore ==
    LET t == Epoch
        r == [IdleProc EXCEPT !.from = OtherPhone, !.today = dayKey(t), !.nowMs = t]
        burstKey == K_BURST(OtherPhone, t \div BURST_WINDOW_SECONDS)
        s1 == Incr(SeededStore, burstKey)
        s2 == Expire(s1, burstKey, BURST_WINDOW_SECONDS + BURST_TTL_EXTRA, t)
        s3 == Incr(s2, K_UNKNOWN_WINDOW)
        s4 == Expire(s3, K_UNKNOWN_WINDOW, UNKNOWN_WINDOW_MINUTES * 60, t)
        s5 == RecordApply(s4, r, "hincrby", t)
        s6 == RecordApply(s5, r, "hset", t)
        s7 == RecordApply(s6, r, "expire", t)
        s8 == RecordApply(s7, r, "incr", t)
    IN RecordApply(s8, r, "globalExpire", t)

InitConc == InitWith({RepliedStore}, {W_PASSWORD}, ConcDeliveries, ConcTicks)

PipelineConc(p) ==
    \/ IsOptedOut(p)
    \/ WhitelistCheck(p)
    \/ IsBlocked(p)
    \/ BurstIncr(p)
    \/ BurstExpire(p)
    \/ FloodIncr(p)
    \/ FloodExpire(p)
    \/ GetDefensive(p)
    \/ GlobalGet(p)
    \/ ThrottleGet(p)
    \/ RecordOp(p)

\* The two invocations are alike: the second slot is taken only while the
\* first is busy.
NextConc ==
    \/ \E s \in ConcSenders, b \in ConcBodies : Start(1, s, b, 1)
    \/ \E s \in ConcSenders, b \in ConcBodies : InFlight(1) /\ Start(2, s, b, 1)
    \/ \E p \in Procs : PipelineConc(p)
    \/ \E p \in Procs : Finish(p, FALSE)
    \/ \E d \in ConcTickSteps : Tick(d, TRUE)

SpecConc == InitConc /\ [][NextConc]_vars

\* RepliedStore is a store of the program: SpecPair reaches it.
RepliedStoreReached == redis = RepliedStore /\ Quiet /\ now = Epoch

\* The global daily reply counter of a day.
GlobalCount(R, day) == GetNumber(R, K_GLOBAL_DAILY(day))
GlobalKeys(R) == {k \in DOMAIN R : k[1] = "rl:global:"}
\* The most deliveries in flight at once.
MaxInFlight == Cardinality(Procs)

C3_Overshoot ==
    \E k \in GlobalKeys(redis) : redis[k].v = GLOBAL_MAX_PER_DAY + 1

PremiumPhone == <<"+", "1", "9", "0", "0", "5", "5", "5", "1", "2", "3", "4">>
\* (params.From || '') of a request without From.
NoPhone == <<>>
OriginDeliveries == 2
OriginSenders == {PremiumPhone, UKPhone, NoPhone}
OriginBodies == {B_password, B_stop, B_help, B_start_password, B_hello}

InitOrigin == InitWith({SeededStore}, {<<>>, W_PASSWORD}, OriginDeliveries, 0)

PipelineOrigin(p) ==
    \/ RecordOptOutOp(p)
    \/ ClearOptOutOp(p)
    \/ IsOptedOut(p)
    \/ WhitelistCheck(p)
    \/ IsBlocked(p)
    \/ BurstIncr(p)
    \/ BurstExpire(p)
    \/ FloodIncr(p)
    \/ FloodExpire(p)
    \/ GetDefensive(p)
    \/ GlobalGet(p)
    \/ ThrottleGet(p)
    \/ RecordOp(p)

NextOrigin ==
    \/ \E s \in OriginSenders, b \in OriginBodies : Start(1, s, b, 0)
    \/ PipelineOrigin(1)
    \/ Finish(1, FALSE)

SpecOrigin == InitOrigin /\ [][NextOrigin]_vars

(***************************************************************************)
(* C11. The sender "+19005551234" is +1 and ten digits: the origin check   *)
(* of the abuse guard lets it through to the block check, and from there   *)
(* the burst counter of the sender is written.                             *)
(***************************************************************************)
C11_Case(p) ==
    /\ Done(p)
    /\ proc[p].from = PremiumPhone
    /\ ~Whitelisted(proc[p].pre, proc[p].from)
    /\ "guard" \in proc[p].path

C11_900NumberIsValid ==
    \A p \in Procs :
        C11_Case(p) =>
            /\ "formatRejected" \notin proc[p].path
            /\ "blockCheck" \in proc[p].path
            /\ ~Blocked(proc[p].pre, proc[p].from) =>
                    /\ "burst" \in proc[p].path
                    /\ Has(redis, K_BURST(proc[p].from, proc[p].bucket))
                    /\ AbuseThrottle(redis) # AbuseThrottle(proc[p].pre)

\* C11 as stated: the identifier is taken for an invalid one.
C11_AsStated ==
    \A p \in Procs :
        C11_Case(p) =>
            /\ "formatRejected" \in proc[p].path
            /\ proc[p].outcome = "SILENT"
            /\ AbuseThrottle(redis) = AbuseThrottle(proc[p].pre)
            /\ ~Blocked(redis, proc[p].from)

\* The 900 number is answered with the fallback.
C11_Witness ==
    \E p \in Procs :
        /\ C11_Case(p)
        /\ proc[p].outcome = "REPLY_FALLBACK"

(***************************************************************************)
(* SpecWindow: one unknown sender sends "password" six times, at the start *)
(* of a burst bucket, 45 seconds later, or 90 seconds later (the next      *)
(* bucket).                                                                *)
(***************************************************************************)
WindowDeliveries == 6
WindowTicks == 2
WindowTickSteps == {45}

InitWindow == InitWith({SeededStore}, {W_PASSWORD}, WindowDeliveries, WindowTicks)

PipelineWindow(p) ==
    \/ IsOptedOut(p)
    \/ WhitelistCheck(p)
    \/ IsBlocked(p)
    \/ BurstIncr(p)
    \/ BurstExpire(p)
    \/ BlockSadd(p)
    \/ BlockScan(p)
    \/ BlockDel(p)
    \/ BlockHdel(p)
    \/ FloodIncr(p)
    \/ FloodExpire(p)
    \/ GetDefensive(p)
    \/ GlobalGet(p)
    \/ ThrottleGet(p)
    \/ RecordOp(p)

NextWindow ==
    \/ Start(1, UnknownPhone, B_password, 0)
    \/ PipelineWindow(1)
    \/ Finish(1, FALSE)
    \/ \E d \in WindowTickSteps : Tick(d, TRUE)

SpecWindow == InitWindow /\ [][NextWindow]_vars

\* The messages of a sender counted by its live burst counters, and the time
\* of the earliest of them (a counter's expiry is set at its first message).
RECURSIVE SumCounts(_, _)
SumCounts(R, K) ==
    IF K = {} THEN 0
    ELSE LET k == CHOOSE x \in K : TRUE IN R[k].v + SumCounts(R, K \ {k})
BurstSeen(R, phone) == SumCounts(R, ScanBurst(R, phone))
BurstSince(R, phone) ==
    LET firsts == {R[k].exp - (BURST_WINDOW_SECONDS + BURST_TTL_EXTRA) :
                        k \in ScanBurst(R, phone)}
    IN CHOOSE t \in firsts : \A u \in firsts : t <= u

(***************************************************************************)
(* C12. Of the messages of an unknown, valid, non-blocked sender that      *)
(* reach the burst guard with handling times in one burst bucket (the same *)
(* floor(time / 60 s)), the first 5 are not blocked by the burst guard and *)
(* the 6th adds the sender to the block set.                               *)
(***************************************************************************)
C12_Case(p) ==
    /\ Done(p)
    /\ "burst" \in proc[p].path

C12_SixthInBucketBlocks ==
    \A p \in Procs :
        C12_Case(p) =>
            /\ proc[p].burstCount =
                    GetNumber(proc[p].pre, K_BURST(proc[p].from, proc[p].bucket)) + 1
            /\ proc[p].burstCount <= MAX_MESSAGES_PER_NUMBER =>
                    /\ "burstBlock" \notin proc[p].path
                    /\ ~Blocked(redis, proc[p].from)
            /\ proc[p].burstCount = MAX_MESSAGES_PER_NUMBER + 1 =>
                    /\ "burstBlock" \in proc[p].path
                    /\ ~Blocked(proc[p].pre, proc[p].from)
                    /\ Blocked(redis, proc[p].from)

\* C12 as stated: the 6th of the messages handled within any span of less
\* than 60 seconds adds the sender to the block set.
C12_AsStated ==
    \A p \in Procs :
        (/\ C12_Case(p)
         /\ BurstSeen(proc[p].pre, proc[p].from) = MAX_MESSAGES_PER_NUMBER
         /\ proc[p].preNow - BurstSince(proc[p].pre, proc[p].from)
                < BURST_WINDOW_SECONDS)
            => Blocked(redis, proc[p].from)

\* Six messages in one bucket, the last of them 45 seconds after the first.
C12_Witness ==
    \E p \in Procs :
        /\ C12_Case(p)
        /\ proc[p].burstCount = MAX_MESSAGES_PER_NUMBER + 1
        /\ Blocked(redis, proc[p].from)
        /\ proc[p].preNow = BurstSince(proc[p].pre, proc[p].from) + 45

(***************************************************************************)
(* C13. A message that reaches the block check of the abuse guard from a   *)
(* sender in the block set is rejected there: SILENT, and no key of the    *)
(* abuse guard or of the throttle ledger (burst counter, flood counter,    *)
(* defensive-mode flag, suspicious counter, throttle record, global daily  *)
(* counter) is changed by the delivery.                                    *)
(***************************************************************************)
C13_Case(p) ==
    /\ Done(p)
    /\ Blocked(proc[p].pre, proc[p].from)
    /\ ~Whitelisted(proc[p].pre, proc[p].from)

C13_BlockedRejectedUntouched ==
    \A p \in Procs :
        (C13_Case(p) /\ "blockCheck" \in proc[p].path) =>
            /\ "blockedRejected" \in proc[p].path
            /\ proc[p].outcome = "SILENT"
            /\ AbuseThrottle(redis) = AbuseThrottle(proc[p].pre)

\* C13 as stated: every message of a blocked sender ends at the block check.
C13_AsStated ==
    \A p \in Procs :
        C13_Case(p) =>
            /\ "blockedRejected" \in proc[p].path
            /\ proc[p].outcome = "SILENT"
            /\ AbuseThrottle(redis) = AbuseThrottle(proc[p].pre)

\* A blocked sender's "start password": the opt-out is cleared, the message
\* is turned away at the block check.
C13_Witness ==
    \E p \in Procs :
        /\ C13_Case(p)
        /\ "optIn" \in proc[p].path
        /\ "blockedRejected" \in proc[p].path

(***************************************************************************)
(* C14. No step of a webhook delivery takes a sender out of the block set: *)
(* a sender leaves it only by the SREM of the admin's unblock.             *)
(***************************************************************************)
C14_BlockIsOneWay ==
    [][\A ph \in Members(redis, K_ABUSE_SET) :
            ph \notin Members(redis', K_ABUSE_SET) =>
                /\ admin.pc = "srem"
                /\ admin.phone = ph
                /\ proc' = proc]_vars

\* A guest's "start password" is answered while another sender is in the
\* block set, and leaves it there.
C14_Witness ==
    \E p \in Procs :
        /\ Done(p)
        /\ proc[p].from = GuestPhone
        /\ "optIn" \in proc[p].path
        /\ Blocked(proc[p].pre, UnknownPhone)
        /\ Blocked(redis, UnknownPhone)

(***************************************************************************)
(* C15. Every per-sender key of the store (opt-out flag, burst counter,    *)
(* throttle and suspicious record) and every member of the opt-out index   *)
(* and of the block set is a sender identifier of the form +1 and ten      *)
(* digits.                                                                 *)
(***************************************************************************)
PerSenderKey(k) == k[1] \in {"optout:", "rl:num:", "burst:"}

C15_CanonicalKeysOnly ==
    /\ \A k \in DOMAIN redis : PerSenderKey(k) => IsE164US(k[2])
    /\ \A m \in Members(redis, K_OPTOUT_INDEX) : IsE164US(m)
    /\ \A m \in Members(redis, K_ABUSE_SET) : IsE164US(m)

(***************************************************************************)
(* C16. A message with no sender identifier is answered only when its body *)
(* has a help word and no opt-out word (REPLY_HELP); with every other body *)
(* the outcome is SILENT, the message that gets as far as the abuse guard  *)
(* being turned away by the format test.                                   *)
(***************************************************************************)
C16_Case(p) ==
    /\ Done(p)
    /\ proc[p].from = NoPhone

C16_EmptySenderSilentButHelp ==
    \A p \in Procs :
        C16_Case(p) =>
            /\ proc[p].outcome =
                    IF HelpMatch(proc[p].upper) /\ ~OptOutMatch(proc[p].upper)
                        THEN "REPLY_HELP" ELSE "SILENT"
            /\ "guard" \in proc[p].path => "formatRejected" \in proc[p].path

\* C16 as stated: SILENT whatever the body.
C16_AsStated ==
    \A p \in Procs : C16_Case(p) => proc[p].outcome = "SILENT"

\* "start password" with no sender: the opt-out of the empty identifier is
\* cleared, the format test turns the message away.
C16_Witness ==
    \E p \in Procs :
        /\ C16_Case(p)
        /\ "optIn" \in proc[p].path
        /\ "formatRejected" \in proc[p].path
        /\ proc[p].outcome = "SILENT"

(***************************************************************************)
(* SpecFail: deliveries handled one at a time, any store call of which may *)
(* fail.                                                                   *)
(***************************************************************************)
FailDeliveries == 2
FailSenders == {GuestPhone, UnknownPhone}
FailBodies == {B_password, B_stop, B_start_password, B_help}

InitFail == InitWith({SeededStore}, {W_PASSWORD}, FailDeliveries, 0)

PipelineFail(p) ==
    \/ RecordOptOutOp(p)
    \/ ClearOptOutOp(p)
    \/ IsOptedOut(p)
    \/ WhitelistCheck(p)
    \/ IsBlocked(p)
    \/ BurstIncr(p)
    \/ BurstExpire(p)
    \/ FloodIncr(p)
    \/ FloodExpire(p)
    \/ GetDefensive(p)
    \/ GlobalGet(p)
    \/ ThrottleGet(p)
    \/ RecordOp(p)

NextFail ==
    \/ \E s \in FailSenders, b \in FailBodies : Start(1, s, b, 0)
    \/ PipelineFail(1)
    \/ StoreFails(1)
    \/ Drain(1)
    \/ Finish(1, FALSE)

SpecFail == InitFail /\ [][NextFail]_vars

(***************************************************************************)
(* C17. A delivery one of whose store calls failed ends in the failure     *)
(* result (500), which is none of REPLY_SECRET, REPLY_HELP, REPLY_FALLBACK *)
(* and SILENT; a delivery that ends in one of the four had no failed call. *)
(***************************************************************************)
Outcomes == {"REPLY_SECRET", "REPLY_HELP", "REPLY_FALLBACK", "SILENT"}

C17_FailureIsSurfaced ==
    \A p \in Procs :
        /\ (InFlight(p) /\ "failed" \in proc[p].path) =>
                /\ proc[p].outcome = "ERROR"
                /\ proc[p].outcome \notin Outcomes
        /\ (Done(p) /\ "failed" \notin proc[p].path) => proc[p].outcome \in Outcomes

\* The HSET of the reply's record fails after the counters were incremented.
C17_Witness ==
    \E p \in Procs :
        /\ Done(p)
        /\ "failed" \in proc[p].path
        /\ "record" \in proc[p].path
        /\ proc[p].outcome = "ERROR"
        /\ Hget(redis, K_PER_NUMBER_HASH(proc[p].from), "count") = 1
        /\ ~Has(proc[p].pre, K_PER_NUMBER_HASH(proc[p].from))

(***************************************************************************)
(* C18. With rejoin-by-keyword allowed and no gating keyword configured,   *)
(* no message rejoins by keyword: an opted-out sender's message without an *)
(* opt-in word leaves the opt-out flag set, and is SILENT unless it has a  *)
(* help word and no opt-out word, when it is answered with REPLY_HELP.     *)
(***************************************************************************)
C18_Case(p) ==
    /\ Done(p)
    /\ ALLOW_PASSWORD_REJOIN
    /\ keywordRequired = <<>>
    /\ OptedOut(proc[p].pre, proc[p].from)
    /\ ~OptInMatch(proc[p].upper)

C18_NoKeywordNoRejoin ==
    \A p \in Procs :
        C18_Case(p) =>
            /\ "rejoin" \notin proc[p].path
            /\ OptedOut(redis, proc[p].from)
            /\ proc[p].outcome =
                    IF HelpMatch(proc[p].upper) /\ ~OptOutMatch(proc[p].upper)
                        THEN "REPLY_HELP" ELSE "SILENT"

\* C18 as stated: SILENT for every message without an opt-in word.
C18_AsStated ==
    \A p \in Procs :
        C18_Case(p) =>
            /\ proc[p].outcome = "SILENT"
            /\ OptedOut(redis, proc[p].from)

\* "password" from an opted-out guest, no keyword configured: ignored.
C18_Witness ==
    \E p \in Procs :
        /\ C18_Case(p)
        /\ Includes(proc[p].upper, W_PASSWORD)
        /\ Whitelisted(proc[p].pre, proc[p].from)
        /\ "optedOut" \in proc[p].path
        /\ proc[p].outcome = "SILENT"

(***************************************************************************)
(* C19. When a gating keyword is configured and the body does not hold it  *)
(* (letter case aside), the whitelist, abuse-guard and throttle stages are *)
(* not run for any sender, guests included, and no abuse or throttle       *)
(* record changes; the outcome is SILENT, unless the body has a help word  *)
(* and no opt-out word, when it is REPLY_HELP.                             *)
(***************************************************************************)
C19_Case(p) ==
    /\ Done(p)
    /\ keywordRequired # <<>>
    /\ ~Includes(proc[p].upper, keywordRequired)

C19_GateForEveryone ==
    \A p \in Procs :
        C19_Case(p) =>
            /\ proc[p].path \cap {"whitelist", "guard", "throttle", "record"} = {}
            /\ AbuseThrottle(redis) = AbuseThrottle(proc[p].pre)
            /\ proc[p].outcome =
                    IF HelpMatch(proc[p].upper) /\ ~OptOutMatch(proc[p].upper)
                        THEN "REPLY_HELP" ELSE "SILENT"

\* C19 as stated: SILENT for every body without the keyword.
C19_AsStated ==
    \A p \in Procs :
        C19_Case(p) =>
            /\ proc[p].path \cap {"whitelist", "guard", "throttle", "record"} = {}
            /\ AbuseThrottle(redis) = AbuseThrottle(proc[p].pre)
            /\ proc[p].outcome = "SILENT"

\* A guest's "hello" stops at the gate.
C19_Witness ==
    \E p \in Procs :
        /\ C19_Case(p)
        /\ Whitelisted(proc[p].pre, proc[p].from)
        /\ "gateFailed" \in proc[p].path
        /\ proc[p].outcome = "SILENT"

(***************************************************************************)
(* C20. Two deliveries of one unknown sender's messages that are in flight *)
(* at once never both end in REPLY_FALLBACK: handled one after the other,  *)
(* at the same clock time, the second falls in the cooldown of the first   *)
(* and at most one of them is answered.                                    *)
(***************************************************************************)
C20_NeverUnderThrottles ==
    \A p, q \in Procs :
        (/\ p # q
         /\ Done(p)
         /\ Done(q)
         /\ proc[p].from = proc[q].from
         /\ proc[p].preNow = proc[q].preNow)
            => ~(/\ proc[p].outcome = "REPLY_FALLBACK"
                 /\ proc[q].outcome = "REPLY_FALLBACK")

(***************************************************************************)
(* SpecPool: one run of the bulk admin CLI, with any list of tokens of the *)
(* inputs, any --concurrency of the inputs, and every request free to      *)
(* succeed or fail.                                                        *)
(***************************************************************************)
MaxItems == 3

T_dashed == <<"5", "5", "5", "-", "9", "9", "9", "-", "0", "0", "0", "0">>
T_short == <<"5", "5", "5", "-", "9", "9", "9">>
Tokens == {UnknownPhone, T_dashed, GuestPhone, T_short}
TokenLists == UNION {[1..n -> Tokens] : n \in 0..MaxItems}
ConcurrencyFlags == {"absent", "bare", "0", "1", "2", "2.5", "abc"}

InitPool == InitWith({SeededStore}, {<<>>}, 0, 0)

Worker(i) ==
    \/ CallReturns(i)
    \/ CallThrows(i)
    \/ BackoffEnds(i)
    \/ Settle(i)
    \/ Finally(i)

NextPool ==
    \/ \E tokens \in TokenLists, flag \in ConcurrencyFlags, dryRun \in BOOLEAN :
          CliRun(tokens, flag, dryRun)
    \/ \E i \in 1..MaxItems : Worker(i)
    \/ Report

SpecPool == InitPool /\ [][NextPool]_vars

\* The workers of the pool that were started and have not run their finally.
Active == {i \in DOMAIN cli.worker : cli.worker[i].st \notin {"new", "finished"}}

\* No item is handed to the worker twice, and none is left out once the
\* pool has resolved.
HandedOnce ==
    /\ \A i \in DOMAIN cli.handed : cli.handed[i] <= 1
    /\ cli.pc = "resolved" => \A i \in DOMAIN cli.handed : cli.handed[i] = 1

\* The pool resolves after the finally of every worker, with results[i]
\* written for every item.
ResolvesLast ==
    cli.pc = "resolved" =>
        /\ DOMAIN cli.results = 1..Len(cli.prepared)
        /\ \A i \in DOMAIN cli.worker : /\ cli.worker[i].st = "finished"
                                        /\ cli.results[i] \in {"ok", "error"}

RECURSIVE SentFor(_, _)
SentFor(phone, n) ==
    IF n = 0 THEN 0
    ELSE SentFor(phone, n - 1) + (IF cli.prepared[n] = phone THEN cli.sent[n] ELSE 0)

\* While items wait to be handed out, the pool runs as many workers as the
\* limit allows, whatever became of the workers before.
NeverStalled ==
    cli.pc = "pool" =>
        /\ cli.active > 0
        /\ cli.idx < Len(cli.prepared) => cli.active * 2 >= cli.limit2

(***************************************************************************)
(* C22. Each entry of the prepared list is sent to the endpoint at most 3  *)
(* times: no call follows a success, an entry is a failure exactly when 3  *)
(* calls failed, and failing entries stop no other entry: the pool is      *)
(* never stalled and resolves with every entry sent and reported.  (The    *)
(* list is made unique before it is normalized, so one phone number given  *)
(* in two spellings is two entries.)                                       *)
(***************************************************************************)
C22_Case(i) == i \in DOMAIN cli.worker /\ cli.worker[i].st # "new"

WordsDeliveries == 2

B_start == <<"s", "t", "a", "r", "t">>
B_unstop == <<"u", "n", "s", "t", "o", "p">>
B_yes == <<"Y", "e", "s">>
B_info == <<" ", "i", "n", "f", "o">>
WordsSenders == {GuestPhone, UnknownPhone}
WordsBodies == {B_start, B_unstop, B_yes, B_help, B_info, B_stop, B_password}

\* The store after recordOptOut(UnknownPhone) at Epoch.
OptedOutStore ==
    Sadd(SetEx(SeededStore, K_OPTOUT(UnknownPhone), "1", OPTOUT_TTL, Epoch),
         K_OPTOUT_INDEX, UnknownPhone)

InitWords == InitWith({SeededStore, OptedOutStore}, {<<>>, W_PASSWORD}, WordsDeliveries, 0)

PipelineWords(p) ==
    \/ RecordOptOutOp(p)
    \/ ClearOptOutOp(p)
    \/ IsOptedOut(p)
    \/ WhitelistCheck(p)
    \/ IsBlocked(p)
    \/ BurstIncr(p)
    \/ BurstExpire(p)
    \/ FloodIncr(p)
    \/ FloodExpire(p)
    \/ GetDefensive(p)
    \/ GlobalGet(p)
    \/ ThrottleGet(p)
    \/ RecordOp(p)

NextWords ==
    \/ \E s \in WordsSenders, b \in WordsBodies : Start(1, s, b, 0)
    \/ PipelineWords(1)
    \/ Finish(1, FALSE)

SpecWords == InitWords /\ [][NextWords]_vars

(***************************************************************************)
(* C23. A message that is exactly an opt-in word (START, UNSTOP, YES),     *)
(* from a sender who is opted out, clears the opt-out: after the call the  *)
(* sender's flag is gone and the sender is out of the opt-out index.       *)
(* UNSTOP contains STOP, so it is taken as an opt-out.                     *)
(***************************************************************************)
C23_Case(p) ==
    /\ Done(p)
    /\ proc[p].upper \in OPT_INS
    /\ OptedOut(proc[p].pre, proc[p].from)
    /\ InOptOutIndex(proc[p].pre, proc[p].from)

C23_OptInWordClears ==
    \A p \in Procs : C23_Case(p) =>
        /\ "optIn" \in proc[p].path
        /\ ~OptedOut(redis, proc[p].from)
        /\ ~InOptOutIndex(redis, proc[p].from)

(***************************************************************************)
(* C24. A message with a help word and no opt-out word is answered with    *)
(* REPLY_HELP at the help branch, and the call leaves the store as it      *)
(* found it: every key, value and expiry is the same before and after.     *)
(***************************************************************************)
C24_Case(p) ==
    /\ Done(p)
    /\ HelpMatch(proc[p].upper)
    /\ ~OptOutMatch(proc[p].upper)

C24_HelpLeavesStore ==
    \A p \in Procs : C24_Case(p) =>
        /\ proc[p].outcome = "REPLY_HELP"
        /\ proc[p].path = {"help"}
        /\ redis = proc[p].pre

\* Help from the opted-out sender: answered, and still opted out.
C24_Witness ==
    /\ C24_Case(1)
    /\ proc[1].from = UnknownPhone
    /\ OptedOut(proc[1].pre, UnknownPhone)
    /\ OptedOut(redis, UnknownPhone)

(***************************************************************************)
(* SpecFlood: the global flood stage at its threshold.  The run starts     *)
(* after 19 messages with a URL from five other unknown senders (at most 4 *)
(* each, so none of them is blocked), all within the same second: the      *)
(* flood counter is at 19, one below the threshold, and no reply was sent. *)
(* Then deliveries of one unknown sender, handled one at a time, and the   *)
(* clock stepping over the flood window or over the defensive-mode time.   *)
(***************************************************************************)
FloodDeliveries == 3
FloodTicks == 2
FloodSenders == {UnknownPhone}
FloodBodies == {B_password, B_help, B_url}
FloodTickSteps == {300, 3600}

\* The unknown senders of the earlier traffic: +1555000000k.
Stranger(k) ==
    <<"+", "1", "5", "5", "5", "0", "0", "0", "0", "0", "0">>
        \o <<(<<"0", "1", "2", "3", "4">>)[k + 1]>>

\* The store calls of one delivery with a URL from an unknown sender who is
\* not blocked, in program order (abuse.js 66-75, 4-9, 41-46), at time t.
UrlMessage(R, phone, t) ==
    LET burstKey == K_BURST(phone, t \div BURST_WINDOW_SECONDS)
        hash == K_PER_NUMBER_HASH(phone)
        s1 == Incr(R, burstKey)
        s2 == IF IncrValue(R, burstKey) = 1
                 THEN Expire(s1, burstKey, BURST_WINDOW_SECONDS + BURST_TTL_EXTRA, t)
                 ELSE s1
        s3 == Incr(s2, K_UNKNOWN_WINDOW)
        s4 == IF IncrValue(s2, K_UNKNOWN_WINDOW) = 1
                 THEN Expire(s3, K_UNKNOWN_WINDOW, UNKNOWN_WINDOW_MINUTES * 60, t)
                 ELSE s3
        s5 == Hincrby(s4, hash, "suspicious", 1)
    IN Expire(s5, hash, TTL_PER_NUMBER_HASH, t)

\* n such deliveries, the five senders taking turns, for as long as the next
\* sender is not blocked.
RECURSIVE UrlTraffic(_, _, _)
UrlTraffic(R, n, t) ==
    IF n = 0 \/ Sismember(R, K_ABUSE_SET, Stranger(n % 5)) THEN R
    ELSE UrlTraffic(UrlMessage(R, Stranger(n % 5), t), n - 1, t)

FloodedStore == UrlTraffic(SeededStore, UNKNOWN_MESSAGE_THRESHOLD - 1, Epoch)

InitFlood == InitWith({FloodedStore}, {<<>>}, FloodDeliveries, FloodTicks)

PipelineFlood(p) ==
    \/ WhitelistCheck(p)
    \/ IsOptedOut(p)
    \/ IsBlocked(p)
    \/ BurstIncr(p)
    \/ BurstExpire(p)
    \/ FloodIncr(p)
    \/ FloodExpire(p)
    \/ FloodSet(p)
    \/ GetDefensive(p)
    \/ SuspIncr(p)
    \/ SuspExpire(p)
    \/ GlobalGet(p)
    \/ ThrottleGet(p)
    \/ RecordOp(p)

NextFlood ==
    \/ \E s \in FloodSenders, b \in FloodBodies : Start(1, s, b, 0)
    \/ PipelineFlood(1)
    \/ Finish(1, TRUE)
    \/ \E d \in FloodTickSteps : Tick(d, TRUE)

SpecFlood == InitFlood /\ [][NextFlood]_vars

\* The delivery got past the defensive-mode check of the flood stage.
PassedFlood(r) == "allowed" \in r.path \/ "suspicious" \in r.path
DefensiveMode(R) == GetFlag(R, K_DEFENSIVE_MODE)

(***************************************************************************)
(* C25. A delivery from an unknown sender passes the flood stage only with *)
(* a flood count of at most UNKNOWN_MESSAGE_THRESHOLD, and each delivery   *)
(* takes the next count of the window.  The delivery whose increment goes  *)
(* above the threshold sets the defensive-mode flag for its full duration  *)
(* and is itself rejected (SILENT).  A delivery that starts while the flag *)
(* is set never passes the flood stage and never gets REPLY_FALLBACK: it   *)
(* is SILENT, or REPLY_HELP when it has a help word and no opt-out word.   *)
(***************************************************************************)
C25_Case(p) ==
    /\ Done(p)
    /\ ~Whitelisted(proc[p].pre, proc[p].from)

C25_FloodStage(p) ==
    "flood" \in proc[p].path =>
        /\ proc[p].floodCount = GetNumber(proc[p].pre, K_UNKNOWN_WINDOW) + 1
        /\ PassedFlood(proc[p]) => proc[p].floodCount <= UNKNOWN_MESSAGE_THRESHOLD
        /\ proc[p].floodCount > UNKNOWN_MESSAGE_THRESHOLD =>
              /\ proc[p].outcome = "SILENT"
              /\ "defensiveRejected" \in proc[p].path
              /\ DefensiveMode(redis)
              /\ redis[K_DEFENSIVE_MODE].exp = proc[p].preNow + DEFENSIVE_MODE_DURATION_SEC

C25_FloodBreaker ==
    \A p \in Procs : C25_Case(p) =>
        /\ C25_FloodStage(p)
        /\ DefensiveMode(proc[p].pre) =>
              /\ ~PassedFlood(proc[p])
              /\ proc[p].outcome # "REPLY_FALLBACK"
              /\ proc[p].outcome =
                    (IF HelpMatch(proc[p].upper) /\ ~OptOutMatch(proc[p].upper)
                        THEN "REPLY_HELP" ELSE "SILENT")

\* As stated: every delivery that starts in defensive mode is SILENT.
C25_AsStated ==
    \A p \in Procs : C25_Case(p) =>
        /\ C25_FloodStage(p)
        /\ DefensiveMode(proc[p].pre) => proc[p].outcome = "SILENT"

\* "password", two deliveries after the one that took the count to the
\* threshold: it starts in defensive mode and is rejected there.
C25_Witness ==
    /\ C25_Case(1)
    /\ proc[1].upper = W_PASSWORD
    /\ DefensiveMode(proc[1].pre)
    /\ proc[1].floodCount = UNKNOWN_MESSAGE_THRESHOLD + 2
    /\ "defensiveRejected" \in proc[1].path
    /\ proc[1].outcome = "SILENT"

(***************************************************************************)
(* C26. Between deliveries every burst counter and the flood-window        *)
(* counter carry an expiry, also after a delivery one of whose store calls *)
(* failed.  INCR and EXPIRE are two calls: when the EXPIRE fails the       *)
(* counter stays without expiry.                                           *)
(***************************************************************************)
WindowCounter(k) == k = K_UNKNOWN_WINDOW \/ k[1] = "burst:"

C26_CountersCarryExpiry ==
    Quiet => \A k \in DOMAIN redis : WindowCounter(k) => redis[k].exp # NoTTL

(***************************************************************************)
(* SpecContent: the content check.  One unknown sender sends messages with *)
(* a URL, messages of 161 characters and messages of 160 characters, one   *)
(* at a time; the clock can step to the next day between them.             *)
(***************************************************************************)
ContentDeliveries == 5
ContentTicks == 2
ContentSenders == {UnknownPhone}
B_long == [i \in 1..(MAX_MESSAGE_LENGTH + 1) |-> "a"]
B_max == [i \in 1..MAX_MESSAGE_LENGTH |-> "a"]
ContentBodies == {B_url, B_long, B_max}
ContentTickSteps == {86400}

InitContent == InitWith({SeededStore}, {<<>>}, ContentDeliveries, ContentTicks)

PipelineContent(p) ==
    \/ IsOptedOut(p)
    \/ WhitelistCheck(p)
    \/ IsBlocked(p)
    \/ BurstIncr(p)
    \/ BurstExpire(p)
    \/ FloodIncr(p)
    \/ FloodExpire(p)
    \/ GetDefensive(p)
    \/ SuspIncr(p)
    \/ SuspExpire(p)
    \/ BlockSadd(p)
    \/ BlockScan(p)
    \/ BlockDel(p)
    \/ BlockHdel(p)
    \/ GlobalGet(p)
    \/ ThrottleGet(p)
    \/ RecordOp(p)

NextContent ==
    \/ \E s \in ContentSenders, b \in ContentBodies : Start(1, s, b, 0)
    \/ PipelineContent(1)
    \/ Finish(1, FALSE)
    \/ \E d \in ContentTickSteps : Tick(d, TRUE)

SpecContent == InitContent /\ [][NextContent]_vars

\* The sender's suspicious-content counter.
Suspicious(R, phone) == HgetNumber(R, K_PER_NUMBER_HASH(phone), "suspicious")
\* The delivery got to the content check of the abuse guard.
AtContentCheck(r) == "flood" \in r.path /\ "defensiveRejected" \notin r.path /\ r.pc = "done"

(***************************************************************************)
(* C27. A message of an unknown sender that gets to the content check with *)
(* more than 160 characters or with a URL is never answered: HINCRBY adds  *)
(* exactly one to the sender's suspicious counter and the outcome is       *)
(* SILENT; below 5 the counter keeps the new value, and the message that   *)
(* takes it to 5 puts the sender in the block set.                         *)
(***************************************************************************)
C27_Case(p) ==
    /\ AtContentCheck(proc[p])
    /\ IsSuspicious(proc[p].body)

C27_SuspiciousIsSilent ==
    \A p \in Procs : C27_Case(p) =>
        /\ "suspicious" \in proc[p].path /\ "allowed" \notin proc[p].path
        /\ proc[p].outcome = "SILENT"
        /\ proc[p].badCount = Suspicious(proc[p].pre, proc[p].from) + 1
        /\ proc[p].badCount < SUSPICIOUS_BLOCK_AT =>
              /\ Suspicious(redis, proc[p].from) = proc[p].badCount
              /\ ~Blocked(redis, proc[p].from)
        /\ proc[p].badCount >= SUSPICIOUS_BLOCK_AT => Blocked(redis, proc[p].from)

\* The fifth suspicious message, one of 161 characters: the sender is blocked.
C27_Witness ==
    /\ C27_Case(1)
    /\ proc[1].body = B_long
    /\ proc[1].badCount = SUSPICIOUS_BLOCK_AT
    /\ Blocked(redis, UnknownPhone)
    /\ ~Blocked(proc[1].pre, UnknownPhone)

(***************************************************************************)
(* C29. The suspicious counter is per day: a suspicious message counts     *)
(* from 1 again when the sender's earlier suspicious messages were sent on *)
(* an earlier day.  The counter is a field of the sender's hash, which     *)
(* lives 3 days from its last write: the days add up.                      *)
(***************************************************************************)
\* The time of the last write to the sender's hash (each write is followed
\* by EXPIRE with TTL_PER_NUMBER_HASH).
LastWrite(R, phone) == R[K_PER_NUMBER_HASH(phone)].exp - TTL_PER_NUMBER_HASH

C29_Case(p) ==
    /\ C27_Case(p)
    /\ Suspicious(proc[p].pre, proc[p].from) > 0
    /\ dayKey(LastWrite(proc[p].pre, proc[p].from)) # proc[p].today

C29_CounterIsPerDay ==
    \A p \in Procs : C29_Case(p) =>
        /\ proc[p].badCount = 1
        /\ ~Blocked(redis, proc[p].from)

(***************************************************************************)
(* The standalone abuse guard (the lib/abuse.js that keeps its own         *)
(* thresholds, called by the first handler of api/sms.js with the trimmed  *)
(* sender and body and today's day key).  It keeps a block flag per        *)
(* number, a flood counter per window and a suspicious counter per number  *)
(* and day, and sets the expiry after every INCR.                          *)
(***************************************************************************)
Guard_MAX_MESSAGE_LENGTH == 16
Guard_DEFENSIVE_MODE_DURATION_SEC == 3600 * 6
Guard_BURST_TTL_EXTRA == 60
Guard_FLOOD_TTL_EXTRA == 300
Guard_SUSPICIOUS_TTL == 172800

K_BLOCK(phone) == <<"block:", phone>>
K_UNKNOWN_FLOOD(window) == <<"unknownFlood:", window>>
K_SUSPICIOUS(phone, day) == <<"suspicious:", phone, day>>

\* SET key value, without EX: the key loses its expiry.
Set(R, k, v) == Put(R, k, v, NoTTL)

burstWindow(t) == t \div BURST_WINDOW_SECONDS
floodWindow(t) == t \div (UNKNOWN_WINDOW_MINUTES * 60)

\* return {allow: ...}: the guard's answer, kept in outcome.
GuardReturn(r, allow, stage) ==
    [r EXCEPT !.pc = "done",
              !.outcome = IF allow THEN "ALLOW" ELSE "REJECT",
              !.path = @ \cup {stage}]

\* 1) the format gate, which reads no key.
GuardCall(p, From, Body) ==
    /\ ~InFlight(p)
    /\ admin.pc = "idle"
    /\ deliveriesLeft > 0
    /\ deliveriesLeft' = deliveriesLeft - 1
    /\ LET r == [IdleProc EXCEPT !.from = Trim(From), !.body = Trim(Body),
                                 !.today = dayKey(now), !.pre = redis,
                                 !.preNow = now]
       IN proc' = [proc EXCEPT ![p] =
                IF ~IsE164US(r.from) THEN GuardReturn(r, FALSE, "guardNonUS")
                ELSE [r EXCEPT !.pc = "guardGetBlock"]]
    /\ prev' = NoDelivery
    /\ UNCHANGED <<redis, now, admin, keyword, ticksLeft, cli>>

\* 2) GET block:<phone>
GuardGetBlock(p) ==
    /\ proc[p].pc = "guardGetBlock"
    /\ proc' = [proc EXCEPT ![p] =
            IF GetFlag(redis, K_BLOCK(proc[p].from))
            THEN GuardReturn(proc[p], FALSE, "guardBlocked")
            ELSE [proc[p] EXCEPT !.pc = "guardBurstIncr"]]
    /\ UNCHANGED <<redis, now, admin, keyword, deliveriesLeft, ticksLeft, prev, cli>>

\* 3) INCR burst:<phone>:<window>
GuardBurstIncr(p) ==
    /\ proc[p].pc = "guardBurstIncr"
    /\ LET key == K_BURST(proc[p].from, burstWindow(now))
       IN /\ redis' = Incr(redis, key)
          /\ proc' = [proc EXCEPT ![p].bucket = burstWindow(now),
                                  ![p].burstCount = IncrValue(redis, key),
                                  ![p].pc = "guardBurstExpire"]
    /\ UNCHANGED <<now, admin, keyword, deliveriesLeft, ticksLeft, prev, cli>>

\* EXPIRE of the burst key, then the comparison with the limit.
GuardBurstExpire(p) ==
    /\ proc[p].pc = "guardBurstExpire"
    /\ redis' = Expire(redis, K_BURST(proc[p].from, proc[p].bucket),
                       BURST_WINDOW_SECONDS + Guard_BURST_TTL_EXTRA, now)
    /\ proc' = [proc EXCEPT ![p] =
            IF proc[p].burstCount > MAX_MESSAGES_PER_NUMBER
            THEN [proc[p] EXCEPT !.pc = "guardBlock", !.pend = {"set", "sadd"},
                                 !.path = @ \cup {"guardBurst"}]
            ELSE [proc[p] EXCEPT !.pc = "guardFloodIncr"]]
    /\ UNCHANGED <<now, admin, keyword, deliveriesLeft, ticksLeft, prev, cli>>

\* permanentlyBlockNumber: SET block:<phone> and SADD abuse:index, in a
\* Promise.all; the guard then returns allow: false.
GuardBlock(p) ==
    /\ proc[p].pc = "guardBlock"
    /\ \E op \in proc[p].pend :
        /\ redis' = IF op = "set" THEN Set(redis, K_BLOCK(proc[p].from), 1)
                    ELSE Sadd(redis, K_ABUSE_SET, proc[p].from)
        /\ proc' = [proc EXCEPT ![p] =
                IF proc[p].pend = {op}
                THEN GuardReturn([proc[p] EXCEPT !.pend = {}], FALSE, "guardBlock")
                ELSE [proc[p] EXCEPT !.pend = @ \ {op}]]
    /\ UNCHANGED <<now, admin, keyword, deliveriesLeft, ticksLeft, prev, cli>>

\* 4) INCR unknownFlood:<window>
GuardFloodIncr(p) ==
    /\ proc[p].pc = "guardFloodIncr"
    /\ LET key == K_UNKNOWN_FLOOD(floodWindow(now))
       IN /\ redis' = Incr(redis, key)
          /\ proc' = [proc EXCEPT ![p].floodCount = IncrValue(redis, key),
                                  ![p].pc = "guardFloodExpire"]
    /\ UNCHANGED <<now, admin, keyword, deliveriesLeft, ticksLeft, prev, cli>>

\* EXPIRE of the flood key (the clock stands still during a call, so the
\* window is the one of the INCR), then the comparison with the threshold.
GuardFloodExpire(p) ==
    /\ proc[p].pc = "guardFloodExpire"
    /\ redis' = Expire(redis, K_UNKNOWN_FLOOD(floodWindow(now)),
                       UNKNOWN_WINDOW_MINUTES * 60 + Guard_FLOOD_TTL_EXTRA, now)
    /\ proc' = [proc EXCEPT ![p].pc = IF proc[p].floodCount > UNKNOWN_MESSAGE_THRESHOLD
                               THEN "guardSetDefensive"
                               ELSE "guardGetDefensive"]
    /\ UNCHANGED <<now, admin, keyword, deliveriesLeft, ticksLeft, prev, cli>>

\* SET defensive:mode 1 EX 21600
GuardSetDefensive(p) ==
    /\ proc[p].pc = "guardSetDefensive"
    /\ redis' = SetEx(redis, K_DEFENSIVE_MODE, 1, Guard_DEFENSIVE_MODE_DURATION_SEC, now)
    /\ proc' = [proc EXCEPT ![p].pc = "guardGetDefensive"]
    /\ UNCHANGED <<now, admin, keyword, deliveriesLeft, ticksLeft, prev, cli>>

\* 5) the content check: the length against the guard's own maximum, and
\* the URL pattern.
GuardSuspicious(body) == Len(body) > Guard_MAX_MESSAGE_LENGTH \/ URL_PATTERN(body)

\* GET defensive:mode, then the content check.
GuardGetDefensive(p) ==
    /\ proc[p].pc = "guardGetDefensive"
    /\ proc' = [proc EXCEPT ![p] =
            IF GetFlag(redis, K_DEFENSIVE_MODE)
            THEN GuardReturn(proc[p], FALSE, "guardDefensive")
            ELSE IF GuardSuspicious(proc[p].body)
            THEN [proc[p] EXCEPT !.pc = "guardSuspIncr", !.path = @ \cup {"guardContent"}]
            ELSE GuardReturn([proc[p] EXCEPT !.path = @ \cup {"guardContent"}],
                             TRUE, "guardPassed")]
    /\ UNCHANGED <<redis, now, admin, keyword, deliveriesLeft, ticksLeft, prev, cli>>

\* INCR suspicious:<phone>:<today>
GuardSuspIncr(p) ==
    /\ proc[p].pc = "guardSuspIncr"
    /\ LET key == K_SUSPICIOUS(proc[p].from, proc[p].today)
       IN /\ redis' = Incr(redis, key)
          /\ proc' = [proc EXCEPT ![p].badCount = IncrValue(redis, key),
                                  ![p].pc = "guardSuspExpire"]
    /\ UNCHANGED <<now, admin, keyword, deliveriesLeft, ticksLeft, prev, cli>>

\* EXPIRE of the suspicious key; at 5 the number is blocked, and the
\* message is rejected either way.
GuardSuspExpire(p) ==
    /\ proc[p].pc = "guardSuspExpire"
    /\ redis' = Expire(redis, K_SUSPICIOUS(proc[p].from, proc[p].today),
                       Guard_SUSPICIOUS_TTL, now)
    /\ proc' = [proc EXCEPT ![p] =
            IF proc[p].badCount >= 5
            THEN [proc[p] EXCEPT !.pc = "guardBlock", !.pend = {"set", "sadd"},
                                 !.path = @ \cup {"guardSuspicious"}]
            ELSE GuardReturn(proc[p], FALSE, "guardSuspicious")]
    /\ UNCHANGED <<now, admin, keyword, deliveriesLeft, ticksLeft, prev, cli>>

\* The guard's answer reaches the handler and the invocation ends.
GuardDone(p) ==
    /\ proc[p].pc = "done"
    /\ proc' = [proc EXCEPT ![p] = IdleProc]
    /\ UNCHANGED <<redis, now, admin, keyword, deliveriesLeft, ticksLeft, prev, cli>>

(***************************************************************************)
(* The standalone guard, one call at a time, with bodies on both sides of  *)
(* 16 and of 160 characters; the store starts empty, or one message short  *)
(* of the flood threshold.                                                 *)
(***************************************************************************)
GuardDeliveries == 6
GuardTicks == 2
GuardSenders == {UnknownPhone, UKPhone}
B_sixteen == <<"p","a","s","s","w","o","r","d"," ","p","l","e","a","s","e","!">>
B_seventeen == <<"p","a","s","s","w","o","r","d",","," ","p","l","e","a","s","e","!">>
GuardBodies == {B_sixteen, B_seventeen, B_max, B_long, B_url}
GuardTickSteps == {60, 86400}

\* An unsuspicious message of a stranger at time t, as the guard records it.
GuardMessage(R, phone, t) ==
    Expire(Incr(Expire(Incr(R, K_BURST(phone, burstWindow(t))),
                       K_BURST(phone, burstWindow(t)),
                       BURST_WINDOW_SECONDS + Guard_BURST_TTL_EXTRA, t),
                K_UNKNOWN_FLOOD(floodWindow(t))),
           K_UNKNOWN_FLOOD(floodWindow(t)),
           UNKNOWN_WINDOW_MINUTES * 60 + Guard_FLOOD_TTL_EXTRA, t)

RECURSIVE GuardTraffic(_, _, _)
GuardTraffic(R, n, t) ==
    IF n = 0 \/ Has(R, K_BLOCK(Stranger(n % 5))) THEN R
    ELSE GuardTraffic(GuardMessage(R, Stranger(n % 5), t), n - 1, t)

GuardFloodedStore == GuardTraffic(EmptyStore, UNKNOWN_MESSAGE_THRESHOLD, Epoch)

InitGuard == InitWith({EmptyStore, GuardFloodedStore}, {<<>>}, GuardDeliveries, GuardTicks)

NextGuard ==
    \/ \E s \in GuardSenders, b \in GuardBodies : GuardCall(1, s, b)
    \/ GuardGetBlock(1)
    \/ GuardBurstIncr(1)
    \/ GuardBurstExpire(1)
    \/ GuardBlock(1)
    \/ GuardFloodIncr(1)
    \/ GuardFloodExpire(1)
    \/ GuardSetDefensive(1)
    \/ GuardGetDefensive(1)
    \/ GuardSuspIncr(1)
    \/ GuardSuspExpire(1)
    \/ GuardDone(1)
    \/ \E d \in GuardTickSteps : Tick(d, TRUE)

SpecGuard == InitGuard /\ [][NextGuard]_vars

(***************************************************************************)
(* C28. In the standalone guard the length check rejects a body exactly    *)
(* when it is longer than 160 characters: a body of at most 160 characters *)
(* without URL that gets to the content check passes it.  The guard's own  *)
(* maximum is 16: a body of 17 characters is counted as suspicious.        *)
(***************************************************************************)
C28_Case(p) ==
    /\ proc[p].pc = "done"
    /\ "guardContent" \in proc[p].path

C28_LengthLimitIs160 ==
    \A p \in Procs : C28_Case(p) =>
        /\ Len(proc[p].body) > MAX_MESSAGE_LENGTH =>
              "guardSuspicious" \in proc[p].path
        /\ Len(proc[p].body) <= MAX_MESSAGE_LENGTH /\ ~URL_PATTERN(proc[p].body) =>
              /\ proc[p].outcome = "ALLOW"
              /\ "guardSuspicious" \notin proc[p].path

(***************************************************************************)
(* C30. A message of an unknown sender that passed the abuse guard while   *)
(* today's global counter reads GLOBAL_MAX_PER_DAY or more is not          *)
(* answered, and neither the global counter nor the sender's throttle      *)
(* record (count and last reply) is written.                               *)
(***************************************************************************)
\* The sender's throttle record: the fields count and last of its hash.
ThrottleRecord(R, phone) ==
    <<Hget(R, K_PER_NUMBER_HASH(phone), "count"),
      Hget(R, K_PER_NUMBER_HASH(phone), "last")>>

C30_Case(p) ==
    /\ proc[p].pc = "done"
    /\ "allowed" \in proc[p].path
    /\ GlobalCount(proc[p].pre, proc[p].today) >= GLOBAL_MAX_PER_DAY

C30_CapLeavesCounters ==
    \A p \in Procs : C30_Case(p) =>
        /\ proc[p].outcome = "SILENT"
        /\ "globalCapRejected" \in proc[p].path
        /\ GlobalCount(redis, proc[p].today) = GlobalCount(proc[p].pre, proc[p].today)
        /\ ThrottleRecord(redis, proc[p].from) = ThrottleRecord(proc[p].pre, proc[p].from)
        /\ Has(redis, K_PER_NUMBER_HASH(proc[p].from))
              = Has(proc[p].pre, K_PER_NUMBER_HASH(proc[p].from))
        /\ Has(proc[p].pre, K_PER_NUMBER_HASH(proc[p].from)) =>
              redis[K_PER_NUMBER_HASH(proc[p].from)]
                  = proc[p].pre[K_PER_NUMBER_HASH(proc[p].from)]

\* Two senders were answered today; the first asks again after the cooldown
\* and is turned away at the cap, its record still holding its one reply.
C30_Witness ==
    /\ C30_Case(1)
    /\ proc[1].from = UnknownPhone
    /\ proc[1].preNow >= Epoch + MIN_REPLY_COOLDOWN_MIN * 60
    /\ ThrottleRecord(redis, UnknownPhone)[1] = 1
    /\ GlobalCount(redis, proc[1].today) = GLOBAL_MAX_PER_DAY

(***************************************************************************)
(* SpecTriple: three invocations in flight at once, all for "password"     *)
(* messages of one unknown sender that was answered twice the day before,  *)
(* so that its record is one reply short of MAX_PER_NUMBER_PER_DAY while   *)
(* today's global counter is at 0.                                         *)
(***************************************************************************)
Slots == {1, 2, 3}

\* The store calls of a delivery of phone that is answered with the
\* fallback at time t, in program order.
FallbackAt(R, phone, t) ==
    LET r == [IdleProc EXCEPT !.from = phone, !.today = dayKey(t), !.nowMs = t]
        burstKey == K_BURST(phone, t \div BURST_WINDOW_SECONDS)
        s1 == Incr(Purge(R, t), burstKey)
        s2 == Expire(s1, burstKey, BURST_WINDOW_SECONDS + BURST_TTL_EXTRA, t)
        s3 == Incr(s2, K_UNKNOWN_WINDOW)
        s4 == Expire(s3, K_UNKNOWN_WINDOW, UNKNOWN_WINDOW_MINUTES * 60, t)
        s5 == RecordApply(s4, r, "hincrby", t)
        s6 == RecordApply(s5, r, "hset", t)
        s7 == RecordApply(s6, r, "expire", t)
        s8 == RecordApply(s7, r, "incr", t)
    IN RecordApply(s8, r, "globalExpire", t)

\* UnknownPhone was answered twice the day before, a cooldown apart.
AnsweredTwiceStore ==
    Purge(FallbackAt(FallbackAt(SeededStore, UnknownPhone,
                                Epoch - SecondsPerDay - MIN_REPLY_COOLDOWN_MIN * 60),
                     UnknownPhone, Epoch - SecondsPerDay),
          Epoch)

InitTriple ==
    /\ redis = AnsweredTwiceStore
    /\ now = Epoch
    /\ proc = [p \in Slots |-> IdleProc]
    /\ admin = IdleAdmin
    /\ cli = IdleCli
    /\ keyword = W_PASSWORD
    /\ prev = NoDelivery
    /\ deliveriesLeft = Cardinality(Slots)
    /\ ticksLeft = 0

\* The deliveries arrive together, and the store calls that come before the
\* read of the global counter are taken in order of arrival; from that read
\* on, the calls of the three invocations interleave in every way.
Arrived(p) == proc[p].pc = "isOptedOut"
Throttling(p) == proc[p].pc \in {"throttleGet", "record"}
InOrder(p) ==
    \/ Throttling(p)
    \/ \A q \in Slots : q < p => Throttling(q) \/ ~InFlight(q) \/ proc[q].pc = "done"

NextTriple ==
    \/ Start(1, UnknownPhone, B_password, 2)
    \/ Arrived(1) /\ Start(2, UnknownPhone, B_password, 2)
    \/ Arrived(2) /\ Start(3, UnknownPhone, B_password, 2)
    \/ \E p \in Slots : InOrder(p) /\ PipelineConc(p)
    \/ \E p \in Slots : Finish(p, FALSE)

SpecTriple == InitTriple /\ [][NextTriple]_vars

\* The replies recorded for a sender: the field count of its record.
ReplyCount(R, phone) == HgetNumber(R, K_PER_NUMBER_HASH(phone), "count")

LastReply(R, phone) == HgetNumber(R, K_PER_NUMBER_HASH(phone), "last")

\* The delivery got as far as the writes of the reply's record.
C32_Case(p) ==
    /\ Done(p)
    /\ "record" \in proc[p].path

C32_RecordAllOrNothing ==
    \A p \in Procs : C32_Case(p) =>
        IF proc[p].outcome = "REPLY_FALLBACK"
        THEN /\ GlobalCount(redis, proc[p].today)
                    = GlobalCount(proc[p].pre, proc[p].today) + 1
             /\ ReplyCount(redis, proc[p].from)
                    = ReplyCount(proc[p].pre, proc[p].from) + 1
             /\ LastReply(redis, proc[p].from) = proc[p].nowMs
        ELSE /\ GlobalCount(redis, proc[p].today)
                    = GlobalCount(proc[p].pre, proc[p].today)
             /\ ReplyCount(redis, proc[p].from)
                    = ReplyCount(proc[p].pre, proc[p].from)
             /\ LastReply(redis, proc[p].from)
                    = LastReply(proc[p].pre, proc[p].from)

(***************************************************************************)
(* C33. When the admin's unblock of a phone completes, with no delivery in *)
(* flight, the phone is not in the block set, has no burst counter and no  *)
(* throttle hash (count, last, suspicious); the sender's next message that *)
(* gets to the abuse guard passes the block check and counts as the first  *)
(* of its burst window.                                                    *)
(***************************************************************************)
Reset(R, phone) ==
    /\ ~Blocked(R, phone)
    /\ ScanBurst(R, phone) = {}
    /\ ~Has(R, K_PER_NUMBER_HASH(phone))

C33_UnblockResets ==
    /\ [][admin.pc # "idle" /\ admin'.pc = "idle" => Reset(redis', admin.phone)]_vars
    /\ [](\A p \in Procs :
            (/\ Done(p)
             /\ "blockCheck" \in proc[p].path
             /\ Reset(proc[p].pre, proc[p].from))
                => /\ "blockedRejected" \notin proc[p].path
                   /\ proc[p].burstCount = 1)

\* With no tick of the clock, a message that is the first of its burst
\* window and the sixth of the flood window: the five before it were
\* counted by the burst guard, and the unblock removed their counter.
C33_Witness ==
    /\ Done(1)
    /\ now = Epoch
    /\ proc[1].burstCount = 1
    /\ proc[1].floodCount = MAX_MESSAGES_PER_NUMBER + 1
    /\ Reset(proc[1].pre, proc[1].from)
    /\ "blockedRejected" \notin proc[1].path

(***************************************************************************)
(* HTTP requests.  The webhook handler of api/sms.js starts with the test  *)
(* of the method, and api/admin/whitelist-remove.js with the tests of the  *)
(* token; a response is complete once send, json or end was called on it:  *)
(* res.status(code) alone sets the status code and returns res.            *)
(***************************************************************************)
ADMIN_TOKEN == "s3cret"
\* A parameter the request does not carry (undefined).
NoParam == ""
\* The response of the admin handler was sent with this status.
Sent == {"sent200", "sent400", "sent405"}

\* api/sms.js 219-225: a request that is not a POST gets res.status(405),
\* and the handler returns; a POST is the delivery of Start.
Request(p, method, From, Body) ==
    IF method = "POST" THEN Start(p, From, Body, 0)
    ELSE /\ ~InFlight(p)
         /\ admin.pc = "idle"
         /\ deliveriesLeft > 0
         /\ deliveriesLeft' = deliveriesLeft - 1
         /\ proc' = [proc EXCEPT ![p] =
                [IdleProc EXCEPT !.pc = "status405", !.pre = redis, !.preNow = now]]
         /\ UNCHANGED <<redis, now, admin, keyword, ticksLeft, prev, cli>>

\* whitelist-remove.js 48-62, once the parameters are known.
RemoveParams(token, phoneParam) ==
    IF token = NoParam \/ token # ADMIN_TOKEN
        THEN [IdleAdmin EXCEPT !.pc = "status401"]
    ELSE IF phoneParam = <<>> \/ assertE164US(phoneParam) = <<>>
        THEN [IdleAdmin EXCEPT !.pc = "sent400"]
    ELSE [IdleAdmin EXCEPT !.pc = "removeSrem", !.phone = assertE164US(phoneParam)]

\* whitelist-remove.js 13-41: the configured token, the method, and the
\* parameters of a GET; those of a POST come with its body.
RemoveRequest(method, token, phoneParam) ==
    /\ Quiet
    /\ deliveriesLeft > 0
    /\ deliveriesLeft' = deliveriesLeft - 1
    /\ admin' = IF ADMIN_TOKEN = NoParam THEN [IdleAdmin EXCEPT !.pc = "status401"]
                ELSE IF method \notin {"GET", "POST"} THEN [IdleAdmin EXCEPT !.pc = "sent405"]
                ELSE IF method = "POST" THEN [IdleAdmin EXCEPT !.pc = "readBody"]
                ELSE RemoveParams(token, phoneParam)
    /\ UNCHANGED <<redis, now, proc, keyword, ticksLeft, prev, cli>>

\* whitelist-remove.js 33-40: the body of the POST has been read.
RemoveBody(token, phoneParam) ==
    /\ admin.pc = "readBody"
    /\ admin' = RemoveParams(token, phoneParam)
    /\ UNCHANGED <<redis, now, proc, keyword, deliveriesLeft, ticksLeft, prev, cli>>

\* whitelist-remove.js 62-73: SREM whitelist, then the 200 response.
RemoveSrem ==
    /\ admin.pc = "removeSrem"
    /\ redis' = Srem(redis, K_WHITELIST, admin.phone)
    /\ admin' = [IdleAdmin EXCEPT !.pc = "sent200"]
    /\ UNCHANGED <<now, proc, keyword, deliveriesLeft, ticksLeft, prev, cli>>

\* The response is sent and the invocation ends.
RemoveEnds ==
    /\ admin.pc \in Sent
    /\ admin' = IdleAdmin
    /\ UNCHANGED <<redis, now, proc, keyword, deliveriesLeft, ticksLeft, prev, cli>>

(***************************************************************************)
(* SpecLive: webhook and whitelist-remove requests, one at a time, of any  *)
(* method, with a right, wrong or missing token.  Every store call         *)
(* returns and every handler goes on after its await: the steps of the     *)
(* handlers are weakly fair.                                               *)
(***************************************************************************)
LiveRequests == 3
Methods == {"POST", "GET", "PUT"}
LiveSenders == {GuestPhone, UnknownPhone}
LiveBodies == {B_password, B_help}
TokenParams == {ADMIN_TOKEN, "wrong", NoParam}
PhoneParams == {GuestPhone, T_dashed, <<>>}

InitLive == InitWith({SeededStore}, {W_PASSWORD}, LiveRequests, 0)

StepLive ==
    \/ PipelineConc(1)
    \/ Finish(1, FALSE)
    \/ \E t \in TokenParams, ph \in PhoneParams : RemoveBody(t, ph)
    \/ RemoveSrem
    \/ RemoveEnds

NextLive ==
    \/ \E m \in Methods, s \in LiveSenders, b \in LiveBodies : Request(1, m, s, b)
    \/ \E m \in Methods, t \in TokenParams, ph \in PhoneParams : RemoveRequest(m, t, ph)
    \/ StepLive

SpecLive == InitLive /\ [][NextLive]_vars /\ WF_vars(StepLive)

(***************************************************************************)
(* C34. Every invocation of the webhook handler and of the whitelist-      *)
(* remove handler eventually completes its response: a request to the      *)
(* webhook that is not a POST is answered with 405, a whitelist-remove     *)
(* with a missing or wrong token with 401.  On both paths the handler      *)
(* calls res.status(code) and returns: the response is never sent.         *)
(***************************************************************************)
C34_EveryRequestAnswered ==
    /\ \A p \in Procs : InFlight(p) ~> Done(p)
    /\ (admin.pc # "idle") ~> (admin.pc \in Sent \cup {"sent401"})

(***************************************************************************)
(* SpecEscalate: two invocations of the handler in flight for one unknown  *)
(* sender whose burst counter of the current window already stands at the  *)
(* limit, so that the next message escalates to the block while the other  *)
(* is on its way through the guard.                                        *)
(***************************************************************************)
EscalateDeliveries == 3
EscalateTicks == 1
\* The clock's step takes it past the windows of both guards.
EscalateTickSteps == {UNKNOWN_WINDOW_MINUTES * 60}

\* The store calls of a delivery of phone that is turned away by the
\* cooldown at time t: the counters of the guard, and reads.
CooldownAt(R, phone, t) ==
    Incr(Incr(Purge(R, t), K_BURST(phone, t \div BURST_WINDOW_SECONDS)), K_UNKNOWN_WINDOW)

\* UnknownPhone has sent MAX_MESSAGES_PER_NUMBER messages in the current
\* window: the first was answered, the others fell in the cooldown.
RECURSIVE CooldownTimes(_, _, _, _)
CooldownTimes(R, phone, t, n) ==
    IF n = 0 THEN R ELSE CooldownTimes(CooldownAt(R, phone, t), phone, t, n - 1)

BurstFullStore ==
    CooldownTimes(FallbackAt(SeededStore, UnknownPhone, Epoch), UnknownPhone, Epoch,
                  MAX_MESSAGES_PER_NUMBER - 1)

InitEscalate == InitWith({BurstFullStore}, {W_PASSWORD}, EscalateDeliveries, EscalateTicks)

NextEscalate ==
    \/ Start(1, UnknownPhone, B_password, 1)
    \/ InFlight(1) /\ Start(2, UnknownPhone, B_password, 1)
    \/ \E p \in Procs : PipelineBurst(p)
    \/ \E p \in Procs : Finish(p, FALSE)
    \/ \E d \in EscalateTickSteps : Tick(d, TRUE)

SpecEscalate == InitEscalate /\ [][NextEscalate]_vars

\* The delivery got past the burst stage of the guard.
PastBurst(p) == InFlight(p) /\ "flood" \in proc[p].path
\* The value of the sender's burst counter of the delivery's window in R.
BurstCounter(R, p) == GetNumber(R, K_BURST(proc[p].from, proc[p].bucket))

C36_Case(p) == Done(p) /\ proc[p].outcome = "REPLY_FALLBACK"

C36_RecordExpires ==
    \A p \in Procs :
        C36_Case(p) /\ Has(redis, K_PER_NUMBER_HASH(proc[p].from))
            => redis[K_PER_NUMBER_HASH(proc[p].from)].exp # NoTTL

(***************************************************************************)
(* SpecToggle: two invocations of the handler in flight for one sender     *)
(* who sends STOP and START: recordOptOut and clearOptOut run              *)
(* concurrently, each a Promise.all of two store calls.                    *)
(***************************************************************************)
ToggleDeliveries == 2
ToggleBodies == {B_stop, B_start, B_password}

InitToggle == InitWith({SeededStore, OptedOutStore}, {W_PASSWORD}, ToggleDeliveries, 0)

NextToggle ==
    \/ \E b \in ToggleBodies : Start(1, UnknownPhone, b, 1)
    \/ \E b \in ToggleBodies : InFlight(1) /\ Start(2, UnknownPhone, b, 1)
    \/ \E p \in Procs : PipelineWords(p)
    \/ \E p \in Procs : Finish(p, FALSE)

SpecToggle == InitToggle /\ [][NextToggle]_vars

(***************************************************************************)
(* C37. Once every call in flight has finished, the opt-out flag and the   *)
(* opt-out index agree: the sender's flag is set exactly when the sender   *)
(* is a member of the index, however the store calls of concurrent         *)
(* recordOptOut and clearOptOut were interleaved.                          *)
(***************************************************************************)
C37_FlagAndIndexAgree ==
    (\A p \in Procs : ~InFlight(p) \/ Done(p))
        => (OptedOut(redis, UnknownPhone) <=> InOptOutIndex(redis, UnknownPhone))

(***************************************************************************)
(* SpecRedeliver: the transport delivers a message again, as a duplicate   *)
(* or after a call that failed.  The handler reads From and Body of a      *)
(* delivery only (MessageSid is logged, never compared): the second        *)
(* delivery of a message is a delivery with the From and Body of the one   *)
(* before.  UnknownPhone has sent one message less than the burst limit in *)
(* the current window.                                                     *)
(***************************************************************************)
RedeliverDeliveries == 3
RedeliverTicks == 1
RedeliverBodies == {B_password, B_hello}

BurstNearStore ==
    CooldownTimes(FallbackAt(SeededStore, UnknownPhone, Epoch), UnknownPhone, Epoch,
                  MAX_MESSAGES_PER_NUMBER - 2)

InitRedeliver == InitWith({BurstNearStore}, {W_PASSWORD}, RedeliverDeliveries, RedeliverTicks)

NextRedeliver ==
    \/ \E b \in RedeliverBodies : Start(1, UnknownPhone, b, 0)
    \/ PipelineBurst(1)
    \/ StoreFails(1)
    \/ Drain(1)
    \/ Finish(1, TRUE)
    \/ \E d \in EscalateTickSteps : Tick(d, TRUE)

SpecRedeliver == InitRedeliver /\ [][NextRedeliver]_vars

\* The delivery repeats the message of the delivery before it.
Redelivery(p) ==
    /\ InFlight(p)
    /\ prev # NoDelivery
    /\ prev.from = proc[p].from
    /\ prev.body = proc[p].body
    /\ now - prev.at < BURST_WINDOW_SECONDS

(***************************************************************************)
(* C38. The burst guard counts deliveries: a delivery is escalated to the  *)
(* permanent block only when at least MAX_MESSAGES_PER_NUMBER deliveries   *)
(* of the sender were already counted in the window, and every delivery    *)
(* that ends without a store failure after that many were counted, the     *)
(* repeated delivery of a message included, is escalated and leaves the    *)
(* sender in the block set.                                                *)
(***************************************************************************)
C38_DeliveriesCounted ==
    \A p \in Procs :
        /\ "burstBlock" \in proc[p].path
            => BurstCounter(proc[p].pre, p) >= MAX_MESSAGES_PER_NUMBER
        /\ (Done(p) /\ proc[p].outcome # "ERROR" /\ "burst" \in proc[p].path
                /\ BurstCounter(proc[p].pre, p) >= MAX_MESSAGES_PER_NUMBER)
            => "burstBlock" \in proc[p].path /\ Blocked(redis, proc[p].from)

\* As stated: the repeated delivery of a message, arriving when at most
\* MAX_MESSAGES_PER_NUMBER deliveries (hence at most that many distinct
\* messages) were counted in the window, is not escalated.
C38_AsStated ==
    \A p \in Procs :
        Redelivery(p) /\ BurstCounter(proc[p].pre, p) <= MAX_MESSAGES_PER_NUMBER
            => "burstBlock" \notin proc[p].path

\* The fifth message of the window was delivered, and delivered again: the
\* second delivery is the sixth counted, and the sender is blocked.
C38_Witness ==
    /\ Done(1) /\ Redelivery(1)
    /\ BurstCounter(proc[1].pre, 1) = MAX_MESSAGES_PER_NUMBER
    /\ proc[1].burstCount = MAX_MESSAGES_PER_NUMBER + 1
    /\ "burstBlock" \in proc[1].path
    /\ Blocked(redis, UnknownPhone)

(***************************************************************************)
(* SpecCaps: deliveries handled one at a time from a blocked sender, an    *)
(* unknown sender and a whitelisted one, with the keyword or a help word;  *)
(* the clock advances by the cooldown or by a day.                         *)
(***************************************************************************)
CapsDeliveries == 4
CapsTicks == 2
CapsSenders == {UnknownPhone, OtherPhone, GuestPhone}
CapsBodies == {B_password, B_help}
CapsTickSteps == {MIN_REPLY_COOLDOWN_MIN * 60, SecondsPerDay}

InitCaps == InitWith({SeededStore, BlockedStore}, {W_PASSWORD}, CapsDeliveries, CapsTicks)

NextCaps ==
    \/ \E s \in CapsSenders, b \in CapsBodies : Start(1, s, b, 0)
    \/ PipelineConc(1)
    \/ Finish(1, FALSE)
    \/ \E d \in CapsTickSteps : Tick(d, TRUE)

SpecCaps == InitCaps /\ [][NextCaps]_vars

BystanderDeliveries == 2
BystanderTicks == 1
BystanderSenders == {UnknownPhone, OtherPhone, UKPhone}
BystanderBodies == {B_password, B_stop, B_start, B_help}
BystanderTickSteps == {UNKNOWN_WINDOW_MINUTES * 60, SecondsPerDay}
Parties == BystanderSenders \cup {GuestPhone, PremiumPhone}

BystanderStore ==
    LET s1 == FallbackAt(BurstFullStore, OtherPhone, Epoch)
        s2 == SetEx(s1, K_OPTOUT(UKPhone), "1", OPTOUT_TTL, Epoch)
        s3 == Sadd(s2, K_OPTOUT_INDEX, UKPhone)
    IN Sadd(s3, K_ABUSE_SET, PremiumPhone)

InitBystander ==
    InitWith({BystanderStore}, {W_PASSWORD}, BystanderDeliveries, BystanderTicks)

PipelineBystander(p) ==
    \/ RecordOptOutOp(p)
    \/ ClearOptOutOp(p)
    \/ PipelineBurst(p)

NextBystander ==
    \/ \E s \in BystanderSenders, b \in BystanderBodies : Start(1, s, b, 0)
    \/ PipelineBystander(1)
    \/ Finish(1, FALSE)
    \/ \E d \in BystanderTickSteps : Tick(d, TRUE)

SpecBystander == InitBystander /\ [][NextBystander]_vars

\* The name of a key as the store sees it: a sequence of characters.
KeyName(name) ==
    CASE name = "whitelist" ->
            <<"w", "h", "i", "t", "e", "l", "i", "s", "t">>
      [] name = "abuse:index" ->
            <<"a", "b", "u", "s", "e", ":", "i", "n", "d", "e", "x">>
      [] name = "defensive:mode" ->
            <<"d", "e", "f", "e", "n", "s", "i", "v", "e", ":", "m", "o", "d", "e">>
      [] name = "unknownFlood:window" ->
            <<"u", "n", "k", "n", "o", "w", "n", "F", "l", "o", "o", "d", ":", "w", "i", "n", "d", "o", "w">>
      [] name = "optedout:index" ->
            <<"o", "p", "t", "e", "d", "o", "u", "t", ":", "i", "n", "d", "e", "x">>
      [] name = "rl:global:" ->
            <<"r", "l", ":", "g", "l", "o", "b", "a", "l", ":">>
      [] name = "rl:num:" ->
            <<"r", "l", ":", "n", "u", "m", ":">>
      [] name = "burst:" ->
            <<"b", "u", "r", "s", "t", ":">>
      [] name = "optout:" ->
            <<"o", "p", "t", "o", "u", "t", ":">>

DecimalDigit(n) == (<<"0", "1", "2", "3", "4", "5", "6", "7", "8", "9">>)[n + 1]
RECURSIVE Decimal(_)
Decimal(n) ==
    IF n < 10 THEN <<DecimalDigit(n)>>
    ELSE Decimal(n \div 10) \o <<DecimalDigit(n % 10)>>

RenderKey(k) ==
    KeyName(k[1])
        \o (IF Len(k) < 2 THEN <<>>
            ELSE IF k[1] = "rl:global:" THEN Decimal(k[2]) ELSE k[2])
        \o (IF Len(k) < 3 THEN <<>> ELSE <<":">> \o Decimal(k[3]))

\* part_003 26-29: the pattern of the cleanup's scan.
BurstPattern(phone) == KeyName("burst:") \o phone \o <<":", "*">>

\* The store's glob match, for patterns of literal characters, ? and *.
RECURSIVE GlobMatch(_, _)
GlobMatch(pat, s) ==
    IF pat = <<>> THEN s = <<>>
    ELSE IF Head(pat) = "*"
        THEN GlobMatch(Tail(pat), s) \/ (s # <<>> /\ GlobMatch(pat, Tail(s)))
    ELSE IF Head(pat) = "?"
        THEN s # <<>> /\ GlobMatch(Tail(pat), Tail(s))
    ELSE s # <<>> /\ Head(s) = Head(pat) /\ GlobMatch(Tail(pat), Tail(s))

\* What the store holds for one sender.
Absent == [v |-> "absent", exp |-> NoTTL]
Entry(R, k) == IF Has(R, k) THEN R[k] ELSE Absent
SenderState(R, phone) ==
    [optout |-> Entry(R, K_OPTOUT(phone)),
     indexed |-> InOptOutIndex(R, phone),
     blocked |-> Blocked(R, phone),
     burst |-> [k \in ScanBurst(R, phone) |-> R[k]],
     record |-> Entry(R, K_PER_NUMBER_HASH(phone))]

(***************************************************************************)
(* C40. While a message of sender A is handled, what the store holds for   *)
(* every other sender B is what it held when the message arrived: B's      *)
(* opt-out flag and index membership, block-set membership, burst counters *)
(* and throttle record.  The scan of the block escalation, matched as the  *)
(* store matches the pattern burst:<A>:* against its key names, finds the  *)
(* burst keys of A and no other key.                                       *)
(***************************************************************************)
C40_OthersUntouched ==
    /\ \A p \in Procs : InFlight(p) =>
        \A B \in Parties \ {proc[p].from} :
            SenderState(redis, B) = SenderState(proc[p].pre, B)
    /\ \A A \in Parties, k \in DOMAIN redis :
        GlobMatch(BurstPattern(A), RenderKey(k)) <=> k \in ScanBurst(redis, A)

\* UnknownPhone was blocked and its burst keys deleted; OtherPhone's burst
\* key of the same window is where it was.
C40_Witness ==
    /\ Done(1)
    /\ proc[1].from = UnknownPhone
    /\ "burstBlock" \in proc[1].path
    /\ ScanBurst(proc[1].pre, UnknownPhone) # {}
    /\ ScanBurst(redis, UnknownPhone) = {}
    /\ ScanBurst(redis, OtherPhone) # {}
    /\ SenderState(redis, OtherPhone) = SenderState(proc[1].pre, OtherPhone)

====
